---- MODULE Spec2Model ----
(***************************************************************************)
(* InsightLens backend: the text normaliser (clean_text), the two analysis *)
(* adapters (AlternativeAIAnalysisService over Cohere, AIAnalysisService   *)
(* over Hugging Face) and the POST /analyze handler that orchestrates them.*)
(*                                                                         *)
(* Strings that the code inspects character by character (request text,    *)
(* prompts, provider answers) are sequences of one-character strings.      *)
(* Fixed message literals are TLA+ strings.  Python's None is NoneStr for  *)
(* an Optional[str] and NoneDict for an absent result dictionary.          *)
(***************************************************************************)
EXTENDS Integers, Sequences, FiniteSets, TLC

VARIABLES
  \* ---- harness applying clean_text to an arbitrary string ----
  clean_pc,        \* "off" | "input" | "once" | "twice"
  raw_text,        \* the argument of clean_text
  unique_lines,    \* clean_text's local unique_lines when it reaches the join
  cleaned_once,    \* clean_text(raw_text)
  cleaned_twice,   \* clean_text(clean_text(raw_text))
  \* ---- the server process ----
  env,                     \* os.environ at start-up
  ai_service,              \* analysis.py global: AIAnalysisService or None
  alternative_ai_service,  \* analysis.py global: AlternativeAIAnalysisService or None
  firebase_db,             \* firebase_config.db is initialised
  users,                   \* the Firestore users collection, as a query streams it
  documents,               \* the Firestore extractions collection: id -> analyses
  outbound,                \* every requests.post made, in order
  handler,                 \* request id -> frame of its analyze_text call
  running,                 \* the request whose handler holds the event loop, or 0
  \* ---- analyze_text of one adapter called on its own ----
  direct,                  \* the frame of that call, or None
  \* ---- POST /extract-text from the OCR call on ----
  ocr,                     \* the frame of extract_text_from_image, or None
  \* ---- password reset (auth.py, AuthService) ----
  accounts,                \* users collection: id -> password and reset-token fields
  clock,                   \* datetime.utcnow(), in half hours since start-up
  issued,                  \* how many reset tokens generate_reset_token has made
  auth_log                 \* the calls of the auth endpoints answered so far, in order

clean_vars == <<clean_pc, raw_text, unique_lines, cleaned_once, cleaned_twice>>

auth_vars == <<accounts, clock, issued, auth_log>>

NoneStr == <<"None">>
NoneDict == [none |-> TRUE]

\* ------------------------------------------------------------------------
\* Characters and Python string primitives
\* ------------------------------------------------------------------------

\* A character is a one-character string.  A character outside ASCII is
\* named by its code point ("U+00A0"), so that a string literal denotes the
\* same character under every file encoding.

\* Line boundaries recognised by str.splitlines: \n, \r, \x0b, \x0c, \x1c,
\* \x1d, \x1e, \x85, U+2028 and U+2029 ("\r\n" is one boundary, see
\* SplitLines).
LineBreaks ==
  {"\n", "\r", "", "\f", "", "", "", "U+0085", "U+2028", "U+2029"}

\* Characters for which str.isspace() holds: what str.strip() removes and
\* what the regular expression \s matches.
\* \t, \n, \x0b, \x0c, \r, \x1c to \x1f, the space, \x85, \xa0, U+1680,
\* U+2000 to U+200A, U+2028, U+2029, U+202F, U+205F and U+3000.
Whitespace ==
  {"\t", "\n", "", "\f", "\r", "", "", "", "", " ", "U+0085",
   "U+00A0", "U+1680", "U+2000", "U+2001", "U+2002", "U+2003", "U+2004",
   "U+2005", "U+2006", "U+2007", "U+2008", "U+2009", "U+200A", "U+2028",
   "U+2029", "U+202F", "U+205F", "U+3000"}

\* The alphabet of the strings given to clean_text in SpecClean.
Char == {"a", "b", " ", "\t", "\n", "\r"}

\* Longest string given to clean_text in SpecClean.
MaxLen == 5

RECURSIVE LStrip(_)
LStrip(s) ==
  IF s = <<>> THEN <<>>
  ELSE IF Head(s) \in Whitespace THEN LStrip(Tail(s)) ELSE s

RECURSIVE RStrip(_)
RStrip(s) ==
  IF s = <<>> THEN <<>>
  ELSE IF s[Len(s)] \in Whitespace THEN RStrip(SubSeq(s, 1, Len(s) - 1)) ELSE s

\* str.strip()
Strip(s) == RStrip(LStrip(s))

\* The k-th smallest member of a set of positions (0 for k = 0).
Nth(positions, k) ==
  IF k = 0 THEN 0
  ELSE CHOOSE i \in positions : Cardinality({j \in positions : j <= i}) = k

\* str.splitlines(): a trailing line break opens no further (empty) line,
\* and a "\r" followed by "\n" ends the line together with it.  Written
\* over the positions where a boundary ends, without recursion on the
\* characters, so that long strings can be evaluated.
SplitLines(s) ==
  LET breaks == {i \in DOMAIN s :
                   /\ s[i] \in LineBreaks
                   /\ ~(s[i] = "\r" /\ i < Len(s) /\ s[i + 1] = "\n")}
      n == Cardinality(breaks)
      rest == IF Nth(breaks, n) < Len(s) THEN 1 ELSE 0
      LineEnd(b) == IF b > 1 /\ s[b] = "\n" /\ s[b - 1] = "\r"
                    THEN b - 2 ELSE b - 1
  IN  [k \in 1..(n + rest) |->
         SubSeq(s, Nth(breaks, k - 1) + 1,
                IF k <= n THEN LineEnd(Nth(breaks, k)) ELSE Len(s))]

\* str.split() without argument: the maximal runs of non-whitespace.
SplitWords(s) ==
  LET starts == {i \in DOMAIN s :
                   s[i] \notin Whitespace /\ (i = 1 \/ s[i - 1] \in Whitespace)}
      ends == {i \in DOMAIN s :
                 s[i] \notin Whitespace /\ (i = Len(s) \/ s[i + 1] \in Whitespace)}
  IN  [k \in 1..Cardinality(starts) |-> SubSeq(s, Nth(starts, k), Nth(ends, k))]

RECURSIVE JoinSpace(_)
\* ' '.join(lines)
JoinSpace(lines) ==
  IF lines = <<>> THEN <<>>
  ELSE IF Len(lines) = 1 THEN lines[1]
  ELSE lines[1] \o <<" ">> \o JoinSpace(Tail(lines))

\* re.sub(r'\s+', ' ', s): every maximal run of whitespace becomes one space.
\* Each whitespace character that follows another is dropped, the others
\* become a space.
CollapseWhitespace(s) ==
  LET marked == [i \in DOMAIN s |->
                   <<IF s[i] \in Whitespace THEN " " ELSE s[i],
                     s[i] \in Whitespace /\ i > 1 /\ s[i - 1] \in Whitespace>>]
      kept == SelectSeq(marked, LAMBDA p : ~p[2])
  IN  [i \in DOMAIN kept |-> kept[i][1]]

\* ------------------------------------------------------------------------
\* clean_text
\* ------------------------------------------------------------------------

RECURSIVE KeptFrom(_, _)
KeptFrom(ls, i) ==
  IF i > Len(ls) THEN <<>>
  ELSE LET line == Strip(ls[i])
       IN  (IF line # <<>> /\ Len(line) > 1 THEN <<line>> ELSE <<>>)
             \o KeptFrom(ls, i + 1)

\* A plausible slip: the length filter looks at the raw line, before strip().
KeptLines_rawLength(text) ==
  LET ls == SplitLines(text)
      F[i \in 1..(Len(ls) + 1)] ==
        IF i > Len(ls) THEN <<>>
        ELSE (IF Strip(ls[i]) # <<>> /\ Len(ls[i]) > 1 THEN <<Strip(ls[i])>> ELSE <<>>)
               \o F[i + 1]
  IN  F[1]

\* The first loop of clean_text: each line stripped, kept when longer than 1.
KeptLines(text) == KeptFrom(SplitLines(text), 1)

RECURSIVE DedupFrom(_, _, _)
DedupFrom(lines, i, seen) ==
  IF i > Len(lines) THEN <<>>
  ELSE IF lines[i] \in seen THEN DedupFrom(lines, i + 1, seen)
  ELSE <<lines[i]>> \o DedupFrom(lines, i + 1, seen \cup {lines[i]})

\* A plausible slip: the membership test on `seen` is lost.
UniqueLines_noSeen(lines) == lines

\* The second loop of clean_text: first occurrences, in order.
UniqueLines(lines) == DedupFrom(lines, 1, {})

clean_text(text) ==
  IF text = <<>> THEN <<>>
  ELSE Strip(CollapseWhitespace(JoinSpace(UniqueLines(KeptLines(text)))))

\* ------------------------------------------------------------------------
\* Values shared by the two adapters
\* ------------------------------------------------------------------------

\* A plausible slip: a failure that carries its message as a payload too.
Failure_withPayload(msg) ==
  [success |-> FALSE, result |-> [error |-> msg], message |-> msg]

\* The dictionaries every adapter method returns.
Failure(msg) == [success |-> FALSE, result |-> NoneDict, message |-> msg]
Success(res, msg) == [success |-> TRUE, result |-> res, message |-> msg]

\* Python truthiness of an Optional[str]: None and '' are falsy.
Truthy(s) == s # NoneStr /\ s # <<>>

UpperCase == <<"A", "B", "C", "D", "E", "F", "G", "H", "I", "J", "K", "L", "M",
               "N", "O", "P", "Q", "R", "S", "T", "U", "V", "W", "X", "Y", "Z">>
LowerCase == <<"a", "b", "c", "d", "e", "f", "g", "h", "i", "j", "k", "l", "m",
               "n", "o", "p", "q", "r", "s", "t", "u", "v", "w", "x", "y", "z">>

LowerChar(c) ==
  IF \E i \in DOMAIN UpperCase : UpperCase[i] = c
  THEN LowerCase[CHOOSE i \in DOMAIN UpperCase : UpperCase[i] = c]
  ELSE c

\* str.lower()
Lower(s) == [i \in DOMAIN s |-> LowerChar(s[i])]

\* `needle in s` for strings
Contains(s, needle) ==
  \E i \in 0..(Len(s) - Len(needle)) : SubSeq(s, i + 1, i + Len(needle)) = needle

\* s[:n]
Prefix(s, n) == IF Len(s) > n THEN SubSeq(s, 1, n) ELSE s

Ellipsis == <<".", ".", ".">>

\* s[:n] + '...' if len(s) > n else s
Preview(s, n) == IF Len(s) > n THEN SubSeq(s, 1, n) \o Ellipsis ELSE s

\* Scores are counted in ten-thousandths (0.9876 is 9876) and percentages in
\* tenths of a percent (98.8 is 988), so round(x * 100, 1) is a division
\* rounded to the nearest integer, and the float arithmetic decides nothing
\* but the ties: the values x = q / 2000 with q odd, whose hundredfold
\* q / 20 lies midway between two tenths.

\* round(x * 100, 1) for x = q / 2000, q odd, 0 < q < 2^30, in tenths.
\* x is the double nearest to q / 2000 and x * 100 the double nearest to
\* that product; round(.., 1) rounds the exact value of the double it is
\* given, half to even.  With x = M1 / 2^(E+4), M1 of 53 bits, the two
\* roundings are followed on the low bits of q * 2^E / 125 (eps1, in 125ths
\* of the last bit of x) and of 25 * M1 (eps2, in last bits of x);
\* x * 100 - q / 20 has the sign of eps1 + 5 * eps2.
RoundTie(q) ==
  LET Pow2[e \in 0..24] == IF e = 0 THEN 1 ELSE 2 * Pow2[e - 1]
      Pow2Mod[e \in 0..64] == IF e = 0 THEN 1 ELSE (2 * Pow2Mod[e - 1]) % 8000
      \* 125 * 2^j <= q < 125 * 2^(j+1)
      j == IF q >= 125
           THEN CHOOSE k \in 0..23 : 125 * Pow2[k] <= q /\ q < 125 * Pow2[k + 1]
           ELSE -(CHOOSE k \in 1..7 : q * Pow2[k - 1] < 125 /\ 125 <= q * Pow2[k])
      E == 52 - j
      R == ((q % 8000) * Pow2Mod[E]) % 8000
      r1 == R % 125
      up1 == IF 2 * r1 > 125 THEN 1 ELSE 0
      eps1 == IF up1 = 1 THEN 125 - r1 ELSE -r1
      M1low == ((R \div 125) + up1) % 64
      \* 25 * M1 has 57 bits when q * 2^E + eps1 < 5 * 2^57, else 58
      below == IF j >= -5
               THEN q < 5 * Pow2[5 + j] \/ (q = 5 * Pow2[5 + j] /\ eps1 < 0)
               ELSE q * Pow2[-(5 + j)] < 5
      s == IF below THEN 4 ELSE 5
      Nlow == (25 * M1low) % 64
      rho == Nlow % Pow2[s]
      half == Pow2[s - 1]
      even == (Nlow \div Pow2[s]) % 2 = 0
      eps2 == IF rho < half \/ (rho = half /\ even) THEN -rho ELSE Pow2[s] - rho
      d == eps1 + 5 * eps2
      lo == (q - 1) \div 2
  IN  IF d > 0 THEN lo + 1
      ELSE IF d < 0 THEN lo
      ELSE IF lo % 2 = 0 THEN lo ELSE lo + 1

\* round(score * 100, 1) in tenths of a percent, score in ten-thousandths.
RoundScorePct(score) ==
  IF score % 10 = 5 THEN RoundTie(score \div 5) ELSE (score + 5) \div 10

\* round(n / d * 100, 1) in tenths of a percent, d > 0.
RoundRatioPct(n, d) ==
  IF (2000 * n) % d = 0 /\ ((2000 * n) \div d) % 2 = 1
  THEN RoundTie((2000 * n) \div d)
  ELSE (2000 * n + d) \div (2 * d)

Min(a, b) == IF a <= b THEN a ELSE b

\* 100.0 percent, in tenths of a percent.
ConfidenceCap == 1000

AnswerPrefix == <<"[", "B", "a", "s", "e", "d", " ", "o", "n", " ", "e", "x", "t",
     "r", "a", "c", "t", "e", "d", " ", "t", "e", "x", "t", "]",
     " ">>

NoAnswerSentence ==
  <<"B", "a", "s", "e", "d", " ", "o", "n", " ", "t", "h", "e", " ",
     "p", "r", "o", "v", "i", "d", "e", "d", " ", "t", "e", "x", "t",
     ",", " ", "I", " ", "c", "a", "n", "n", "o", "t", " ", "f", "i",
     "n", "d", " ", "a", " ", "s", "p", "e", "c", "i", "f", "i", "c",
     " ", "a", "n", "s", "w", "e", "r", " ", "t", "o", " ", "y", "o",
     "u", "r", " ", "q", "u", "e", "s", "t", "i", "o", "n", ".", " ",
     "T", "h", "e", " ", "i", "n", "f", "o", "r", "m", "a", "t", "i",
     "o", "n", " ", "m", "a", "y", " ", "n", "o", "t", " ", "b", "e",
     " ", "p", "r", "e", "s", "e", "n", "t", " ", "i", "n", " ", "t",
     "h", "e", " ", "e", "x", "t", "r", "a", "c", "t", "e", "d", " ",
     "t", "e", "x", "t", ".">>

NoAnswerWords == {<<>>, <<"n", "o", "n", "e">>, <<"n", "u", "l", "l">>}

\* A plausible slip: the comparison with 'none' / 'null' forgets lower().
format_answer_caseSensitive(answer) ==
  LET formatted == Strip(answer)
  IN  IF formatted = <<>> \/ formatted \in NoAnswerWords
      THEN NoAnswerSentence
      ELSE AnswerPrefix \o formatted

\* AIAnalysisService._answer_question, the formatting of the answer:
\* `not formatted_answer or formatted_answer.lower() in ['', 'none', 'null']`
\* on the stripped answer selects the fixed sentence; anything else gets the
\* prefix.
HF_format_answer(answer) ==
  LET formatted == Strip(answer)
  IN  IF formatted = <<>> \/ Lower(formatted) \in NoAnswerWords
      THEN NoAnswerSentence
      ELSE AnswerPrefix \o formatted

\* AlternativeAIAnalysisService._question_with_cohere, the same test on the
\* stripped generation text.
Cohere_format_answer(text) ==
  LET answer == Strip(text)
  IN  IF answer = <<>> \/ Lower(answer) \in NoAnswerWords
      THEN NoAnswerSentence
      ELSE AnswerPrefix \o answer

MsgPromptRequired == "Prompt is required for question analysis"
MsgContextTooShort ==
  "Insufficient text extracted from image to answer questions. Please ensure the image contains readable text."
MsgContextNotMeaningful ==
  "Extracted text appears to be insufficient or contains mostly non-meaningful content. Please try with a clearer image."

\* A plausible slip: every word counts, whatever its length.
MeaningfulWords_anyLength(context) == DOMAIN SplitWords(context)

\* [word for word in context.split() if len(word) > 2]
MeaningfulWords(context) ==
  LET ws == SplitWords(context)
  IN  {i \in DOMAIN ws : Len(ws[i]) > 2}

\* What a preflight returns: either the adapter's outcome without any
\* outbound call, or the outbound call it is about to make.
Early(outcome) == [early |-> TRUE, outcome |-> outcome, call |-> NoneDict]
Send(call) == [early |-> FALSE, outcome |-> NoneDict, call |-> call]

IsException(resp) == resp.tag = "exception"
IsNetworkError(resp) == resp.tag = "exception" /\ resp.class = "RequestException"

\* ------------------------------------------------------------------------
\* AIAnalysisService (Hugging Face Inference API)
\* ------------------------------------------------------------------------

\* The credential __init__ falls back to when HUGGING_FACE_API_TOKEN is unset.
DemoToken == "demo_token"

\* AIAnalysisService.__init__: the fields that depend on the environment.
\* An unset variable is the empty string here (None and '' are both falsy).
AIAnalysisService_init(environ) ==
  LET api_token == IF environ.HUGGING_FACE_API_TOKEN = ""
                   THEN DemoToken
                   ELSE environ.HUGGING_FACE_API_TOKEN
  IN  [api_token |-> api_token, authorization |-> "Bearer " \o api_token]

HFSummarizeMinLen == 20
HFSummarizeMaxLen == 2000
HFSentimentMinLen == 5
HFSentimentMaxLen == 512
HFQuestionMinLen == 10
HFQuestionMinWords == 5
HFQuestionMaxLen == 1000
HFTextAnalyzedLen == 100
ContextPreviewLen == 300

HFCall(self, model, text, question) ==
  [provider |-> "huggingface", endpoint |-> model,
   authorization |-> self.authorization, text |-> text, question |-> question]

\* _summarize_text up to requests.post.
HF_summarize_preflight(self, text0) ==
  LET text == clean_text(text0)
  IN  IF Len(text) < HFSummarizeMinLen
      THEN Early(Failure("Insufficient text for summarization"))
      ELSE Send(HFCall(self, "facebook/bart-large-cnn",
                       Preview(text, HFSummarizeMaxLen), NoneStr))

\* _analyze_sentiment up to requests.post.
HF_sentiment_preflight(self, text0) ==
  LET text == clean_text(text0)
  IN  IF Len(text) < HFSentimentMinLen
      THEN Early(Failure("Insufficient text for sentiment analysis"))
      ELSE Send(HFCall(self, "cardiffnlp/twitter-roberta-base-sentiment-latest",
                       Prefix(text, HFSentimentMaxLen), NoneStr))

\* _answer_question up to requests.post.
HF_question_preflight(self, context0, question) ==
  LET context == clean_text(context0)
  IN  IF Len(context) < HFQuestionMinLen
      THEN Early(Failure(MsgContextTooShort))
      ELSE IF Cardinality(MeaningfulWords(context)) < HFQuestionMinWords
      THEN Early(Failure(MsgContextNotMeaningful))
      ELSE Send(HFCall(self, "deepset/roberta-base-squad2",
                       Preview(context, HFQuestionMaxLen), question))

\* AIAnalysisService.analyze_text up to the first outbound call.
HF_preflight(self, text, analysis_type, prompt) ==
  CASE analysis_type = "summarize" -> HF_summarize_preflight(self, clean_text(text))
    [] analysis_type = "sentiment" -> HF_sentiment_preflight(self, text)
    [] analysis_type = "question" ->
         IF ~Truthy(prompt) THEN Early(Failure(MsgPromptRequired))
         ELSE HF_question_preflight(self, text, prompt)
    [] OTHER -> Early(Failure("Unknown analysis type: " \o analysis_type))

\* _summarize_text from the response of requests.post on.
HF_summarize_result(call, resp) ==
  IF IsException(resp)
  THEN Failure((IF IsNetworkError(resp)
                THEN "Network error during summarization: "
                ELSE "Summarization failed: ") \o resp.err)
  ELSE LET result == resp.json
       IN  IF "list" \in DOMAIN result /\ Len(result.list) > 0
           THEN LET summary == IF "summary_text" \in DOMAIN result.list[1]
                               THEN result.list[1].summary_text
                               ELSE <<>>
                IN  IF summary = <<>> \/ Strip(summary) = <<>>
                    THEN Failure("Generated summary is empty")
                    ELSE Success(
                           [summary |-> Strip(summary),
                            original_length |-> Len(call.text),
                            summary_length |-> Len(summary),
                            compression_ratio |->
                              RoundRatioPct(Len(summary), Len(call.text))],
                           "Text summarized successfully")
           ELSE Failure("Failed to generate summary - no results returned")

\* max(result, key=lambda x: x.get('score', 0)): the first item of the
\* highest score.
BestResult(items) ==
  LET top == CHOOSE i \in DOMAIN items :
               /\ \A j \in DOMAIN items : items[j].score <= items[i].score
               /\ \A j \in 1..(i - 1) : items[j].score < items[i].score
  IN  items[top]

\* A plausible slip: the labels of the two poles exchanged.
label_mapping_swapped(label) ==
  CASE label = "LABEL_0" -> "Positive"
    [] label = "LABEL_1" -> "Neutral"
    [] label = "LABEL_2" -> "Negative"
    [] OTHER -> "Neutral"

\* label_mapping.get(label, 'Neutral')
label_mapping(label) ==
  CASE label = "LABEL_0" -> "Negative"
    [] label = "LABEL_1" -> "Neutral"
    [] label = "LABEL_2" -> "Positive"
    [] OTHER -> "Neutral"

\* The emoji are named by their code points.
EmojiSmiling == "U+1F60A"
EmojiNeutral == "U+1F610"
EmojiDisappointed == "U+1F61E"

\* emoji_map.get(sentiment_label, neutral face)
HF_emoji_map(sentiment) ==
  CASE sentiment = "Positive" -> EmojiSmiling
    [] sentiment = "Neutral" -> EmojiNeutral
    [] sentiment = "Negative" -> EmojiDisappointed
    [] OTHER -> EmojiNeutral

\* _analyze_sentiment from the response of requests.post on.
HF_sentiment_result(call, resp) ==
  IF IsException(resp)
  THEN Failure((IF IsNetworkError(resp)
                THEN "Network error during sentiment analysis: "
                ELSE "Sentiment analysis failed: ") \o resp.err)
  ELSE LET result == resp.json
       IN  IF "list" \in DOMAIN result /\ Len(result.list) > 0
           THEN LET best_result == BestResult(result.list)
                    sentiment_label == label_mapping(best_result.label)
                    confidence_score ==
                      Min(RoundScorePct(best_result.score), ConfidenceCap)
                IN  Success(
                      [sentiment |-> sentiment_label,
                       confidence |-> confidence_score,
                       emoji |-> HF_emoji_map(sentiment_label),
                       text_analyzed |-> Preview(call.text, HFTextAnalyzedLen)],
                      "Sentiment analyzed successfully")
           ELSE Failure("Failed to analyze sentiment - no results returned")

\* _answer_question from the response of requests.post on.
HF_question_result(call, resp) ==
  IF IsException(resp)
  THEN Failure((IF IsNetworkError(resp)
                THEN "Network error during question answering: "
                ELSE "Question answering failed: ") \o resp.err)
  ELSE LET result == resp.json
       IN  IF "dict" \in DOMAIN result
           THEN LET answer == IF "answer" \in DOMAIN result.dict
                              THEN result.dict.answer ELSE <<>>
                    confidence == IF "score" \in DOMAIN result.dict
                                  THEN result.dict.score ELSE 0
                    formatted_answer == HF_format_answer(answer)
                IN  Success(
                      [answer |-> formatted_answer,
                       confidence |-> RoundScorePct(confidence),
                       context_preview |-> Preview(call.text, ContextPreviewLen),
                       question |-> call.question,
                       answer_length |-> Len(formatted_answer)],
                      "Question answered successfully")
           ELSE Failure("Invalid response format from question answering model")

\* AIAnalysisService.analyze_text from the response on.
\* A plausible slip: the generic handler reports a fixed text and drops
\* str(e).
HF_result_messageDropped(analysis_type, call, resp) ==
  IF IsException(resp) /\ ~IsNetworkError(resp)
  THEN Failure("Analysis failed")
  ELSE CASE analysis_type = "summarize" -> HF_summarize_result(call, resp)
         [] analysis_type = "sentiment" -> HF_sentiment_result(call, resp)
         [] OTHER -> HF_question_result(call, resp)

HF_result(analysis_type, call, resp) ==
  CASE analysis_type = "summarize" -> HF_summarize_result(call, resp)
    [] analysis_type = "sentiment" -> HF_sentiment_result(call, resp)
    [] OTHER -> HF_question_result(call, resp)

\* ------------------------------------------------------------------------
\* AlternativeAIAnalysisService (Cohere API)
\* ------------------------------------------------------------------------

\* AlternativeAIAnalysisService.__init__: os.getenv("COHERE_API_KEY"); an
\* unset variable is the empty string here (None and '' are both falsy).
AlternativeAIAnalysisService_init(environ) ==
  [cohere_api_key |-> environ.COHERE_API_KEY]

MsgCohereNotConfigured == "Cohere API key not configured"

CohereSummarizeMaxLen == 100000
CohereQuestionMinLen == 10
CohereQuestionMinWords == 5
\* 85.0 and 50.0 percent, in tenths of a percent.
CohereHitConfidence == 850
CohereBaselineConfidence == 500
CohereAnswerConfidence == 850

CohereCall(self, endpoint, text, question) ==
  [provider |-> "cohere", endpoint |-> endpoint,
   authorization |-> "Bearer " \o self.cohere_api_key,
   text |-> text, question |-> question]

\* _summarize_text up to requests.post.  The prompt travels as
\* additional_command (a default instruction replaces a falsy prompt).
Cohere_summarize_preflight(self, text, prompt) ==
  IF self.cohere_api_key = ""
  THEN Early(Failure(MsgCohereNotConfigured))
  ELSE Send(CohereCall(self, "summarize", Prefix(text, CohereSummarizeMaxLen),
                       IF Truthy(prompt) THEN prompt ELSE NoneStr))

\* _analyze_sentiment and _sentiment_with_cohere up to requests.post.
Cohere_sentiment_preflight(self, text) ==
  IF self.cohere_api_key = ""
  THEN Early(Failure(MsgCohereNotConfigured))
  ELSE Send(CohereCall(self, "generate", text, NoneStr))

\* _answer_question and _question_with_cohere up to requests.post.
Cohere_question_preflight(self, context, question) ==
  IF context = <<>> \/ Len(Strip(context)) < CohereQuestionMinLen
  THEN Early(Failure(MsgContextTooShort))
  ELSE IF Cardinality(MeaningfulWords(context)) < CohereQuestionMinWords
  THEN Early(Failure(MsgContextNotMeaningful))
  ELSE IF self.cohere_api_key = ""
  THEN Early(Failure(MsgCohereNotConfigured))
  ELSE Send(CohereCall(self, "generate", context, question))

\* AlternativeAIAnalysisService.analyze_text up to the first outbound call.
Cohere_preflight(self, text0, analysis_type, prompt) ==
  LET text == clean_text(text0)
  IN  CASE analysis_type = "summarize" -> Cohere_summarize_preflight(self, text, prompt)
        [] analysis_type = "sentiment" -> Cohere_sentiment_preflight(self, text)
        [] analysis_type = "question" ->
             IF ~Truthy(prompt) THEN Early(Failure(MsgPromptRequired))
             ELSE Cohere_question_preflight(self, text, prompt)
        [] OTHER -> Early(Failure("Unknown analysis type: " \o analysis_type))

\* A plausible slip: the summary is tested for emptiness before it is
\* stripped.
Cohere_summarize_result_noStrip(call, resp) ==
  IF IsException(resp)
  THEN Failure((IF IsNetworkError(resp)
                THEN "Cohere network error: "
                ELSE "Cohere summarization failed: ") \o resp.err)
  ELSE LET result == resp.json
           summary == IF "summary" \in DOMAIN result
                      THEN result.summary ELSE <<>>
       IN  IF summary = <<>>
           THEN Failure("Cohere returned empty summary")
           ELSE IF Len(call.text) = 0
           THEN Failure("Cohere summarization failed: division by zero")
           ELSE Success(
                  [summary |-> Strip(summary),
                   original_length |-> Len(call.text),
                   summary_length |-> Len(Strip(summary)),
                   compression_ratio |->
                     RoundRatioPct(Len(Strip(summary)), Len(call.text)),
                   api_used |-> "Cohere Summarize-XLarge"],
                  "Text summarized successfully using Cohere")

\* _summarize_text from the response of requests.post on.
Cohere_summarize_result(call, resp) ==
  IF IsException(resp)
  THEN Failure((IF IsNetworkError(resp)
                THEN "Cohere network error: "
                ELSE "Cohere summarization failed: ") \o resp.err)
  ELSE LET result == resp.json
           summary == IF "summary" \in DOMAIN result
                      THEN Strip(result.summary) ELSE <<>>
       IN  IF summary = <<>>
           THEN Failure("Cohere returned empty summary")
           ELSE IF Len(call.text) = 0
           THEN Failure("Cohere summarization failed: division by zero")
           ELSE Success(
                  [summary |-> summary,
                   original_length |-> Len(call.text),
                   summary_length |-> Len(summary),
                   compression_ratio |-> RoundRatioPct(Len(summary), Len(call.text)),
                   api_used |-> "Cohere Summarize-XLarge"],
                  "Text summarized successfully using Cohere")

\* The emoji_map literals of _sentiment_with_cohere are the UTF-8 bytes of
\* the three emoji read as Windows-1252 (mojibake), not the emoji.
MojibakeSmiling == "mojibake(U+1F60A)"
MojibakeNeutral == "mojibake(U+1F610)"
MojibakeDisappointed == "mojibake(U+1F61E)"

Cohere_emoji_map(sentiment) ==
  CASE sentiment = "Positive" -> MojibakeSmiling
    [] sentiment = "Neutral" -> MojibakeNeutral
    [] sentiment = "Negative" -> MojibakeDisappointed
    [] OTHER -> MojibakeNeutral

\* A plausible slip: "negative" is looked for before "positive".
Cohere_sentiment_result_negativeFirst(call, resp) ==
  IF IsException(resp)
  THEN Failure((IF IsNetworkError(resp)
                THEN "Cohere network error: "
                ELSE "Cohere sentiment analysis failed: ") \o resp.err)
  ELSE LET result == resp.json
       IN  IF "generations" \in DOMAIN result /\ Len(result.generations) > 0
           THEN LET analysis == Strip(result.generations[1].text)
                    positive == Contains(Lower(analysis), <<"p", "o", "s", "i", "t", "i", "v", "e">>)
                    negative == Contains(Lower(analysis), <<"n", "e", "g", "a", "t", "i", "v", "e">>)
                    sentiment == IF negative THEN "Negative"
                                 ELSE IF positive THEN "Positive" ELSE "Neutral"
                    confidence == IF positive \/ negative
                                  THEN CohereHitConfidence
                                  ELSE CohereBaselineConfidence
                IN  Success(
                      [sentiment |-> sentiment,
                       confidence |-> Min(confidence, ConfidenceCap),
                       emoji |-> Cohere_emoji_map(sentiment),
                       analysis |-> analysis,
                       api_used |-> "Cohere Command"],
                      "Sentiment analyzed successfully using Cohere")
           ELSE Failure("Invalid response format from Cohere")

\* _sentiment_with_cohere from the response of requests.post on.
Cohere_sentiment_result(call, resp) ==
  IF IsException(resp)
  THEN Failure((IF IsNetworkError(resp)
                THEN "Cohere network error: "
                ELSE "Cohere sentiment analysis failed: ") \o resp.err)
  ELSE LET result == resp.json
       IN  IF "generations" \in DOMAIN result /\ Len(result.generations) > 0
           THEN LET analysis == Strip(result.generations[1].text)
                    positive == Contains(Lower(analysis), <<"p", "o", "s", "i", "t", "i", "v", "e">>)
                    negative == Contains(Lower(analysis), <<"n", "e", "g", "a", "t", "i", "v", "e">>)
                    sentiment == IF positive THEN "Positive"
                                 ELSE IF negative THEN "Negative" ELSE "Neutral"
                    confidence == IF positive \/ negative
                                  THEN CohereHitConfidence
                                  ELSE CohereBaselineConfidence
                IN  Success(
                      [sentiment |-> sentiment,
                       confidence |-> Min(confidence, ConfidenceCap),
                       emoji |-> Cohere_emoji_map(sentiment),
                       analysis |-> analysis,
                       api_used |-> "Cohere Command"],
                      "Sentiment analyzed successfully using Cohere")
           ELSE Failure("Invalid response format from Cohere")

\* _question_with_cohere from the response of requests.post on.
Cohere_question_result(call, resp) ==
  IF IsException(resp)
  THEN Failure((IF IsNetworkError(resp)
                THEN "Cohere network error: "
                ELSE "Cohere question answering failed: ") \o resp.err)
  ELSE LET result == resp.json
       IN  IF "generations" \in DOMAIN result /\ Len(result.generations) > 0
           THEN LET answer == Cohere_format_answer(result.generations[1].text)
                IN  Success(
                      [answer |-> answer,
                       confidence |-> CohereAnswerConfidence,
                       context_preview |-> Preview(call.text, ContextPreviewLen),
                       question |-> call.question,
                       answer_length |-> Len(answer),
                       api_used |-> "Cohere Command"],
                      "Question answered successfully using Cohere")
           ELSE Failure("Invalid response format from Cohere")

\* AlternativeAIAnalysisService.analyze_text from the response on.
Cohere_result(analysis_type, call, resp) ==
  CASE analysis_type = "summarize" -> Cohere_summarize_result(call, resp)
    [] analysis_type = "sentiment" -> Cohere_sentiment_result(call, resp)
    [] OTHER -> Cohere_question_result(call, resp)

\* ------------------------------------------------------------------------
\* Inputs: requests, environment, provider responses
\* ------------------------------------------------------------------------

\* Identifiers of the requests a behaviour may receive.
Requests == {1, 2}

AnalysisTypes == {"summarize", "sentiment", "question"}

\* 25 characters, six words longer than two characters.
TextValid == <<"t", "h", "e", " ", "c", "a", "t", " ", "s", "a", "t", " ", "d",
     "o", "w", "n", " ", "h", "e", "r", "e", " ", "n", "o", "w">>
\* The same content as an OCR artefact: a repeated line, padding, a noise line.
TextValidDup == <<"t", "h", "e", " ", "c", "a", "t", " ", "s", "a", "t", "\n", " ",
     " ", "t", "h", "e", " ", "c", "a", "t", " ", "s", "a", "t", " ",
     "\n", "-", "\n", "d", "o", "w", "n", " ", "h", "e", "r", "e",
     " ", " ", "n", "o", "w", "\n">>
\* Five characters: enough for sentiment only.
TextFive == <<"h", "e", "l", "l", "o">>
TextFour == <<"a", "b", "c", "d">>
\* Not blank, yet empty after clean_text (one-character lines only).
TextNoise == <<"a", "\n", " ", "b">>
TextBlank == <<" ", "\n", " ">>

RequestTexts == {<<>>, TextBlank, TextNoise, TextFour, TextFive, TextValid, TextValidDup}

Question == <<"w", "h", "o", "?">>
Prompts == {NoneStr, <<>>, Question}

DocumentId == <<"d", "1">>
DocumentIds == {NoneStr, DocumentId}

\* A bearer token, reduced to what jwt.decode makes of it: whether the
\* signature and expiry verify, and the `sub` claim.
RegisteredEmail == "user@example.com"
UnknownEmail == "ghost@example.com"
BearerTokens ==
  {[verifies |-> FALSE, sub |-> RegisteredEmail],
   [verifies |-> TRUE, sub |-> RegisteredEmail],
   [verifies |-> TRUE, sub |-> UnknownEmail]}

\* AnalysisRequest (schemas.py) together with the Authorization header.
AnalysisRequests ==
  [text : RequestTexts, analysis_type : AnalysisTypes, prompt : Prompts,
   document_id : DocumentIds, credentials : BearerTokens]

\* os.environ at start-up; "" stands for an unset variable.
Environments ==
  [COHERE_API_KEY : {"", "co-key"}, HUGGING_FACE_API_TOKEN : {"", "hf-token"}]

\* What requests.post / raise_for_status / response.json() can make of an
\* outbound call: an exception, or a decoded JSON body.
Raised(class, err) == [tag |-> "exception", class |-> class, err |-> err, json |-> NoneDict]
Json(body) == [tag |-> "json", class |-> "", err |-> "", json |-> body]

Exceptions ==
  {Raised("RequestException", "Read timed out"),
   Raised("RequestException", "503 Server Error"),
   Raised("Exception", "unexpected response body")}

Summaries == {<<>>, <<" ">>, <<"a", " ", "c", "a", "t", " ", "s", "a", "t">>, <<" ", "a", " ", "c", "a", "t", " ", "s", "a", "t", "\n">>}

Answers ==
  {<<>>, <<" ", "\n">>, <<"n", "o", "n", "e">>, <<"N", "o", "n", "e">>, <<" ", "N", "U", "L", "L", " ">>, <<"n", "u", "l", "l">>, <<"n", "o">>, <<"n", "o", "n", "e", "s", "u", "c", "h">>,
   <<"R", "o", "m", "e">>, <<" ", "t", "h", "e", " ", "C", "a", "t", " ", "\n">>}

Analyses ==
  {<<>>, <<"P", "o", "s", "i", "t", "i", "v", "e">>, <<"O", "v", "e", "r", "a", "l", "l", ":", " ", "N", "E", "G", "A",
     "T", "I", "V", "E">>, <<"N", "e", "u", "t", "r", "a", "l">>,
   <<"n", "o", "t", " ", "p", "o", "s", "i", "t", "i", "v", "e", ",",
     " ", "r", "a", "t", "h", "e", "r", " ", "n", "e", "g", "a", "t",
     "i", "v", "e">>, <<" ", "m", "i", "x", "e", "d", " ">>}

\* Longest list of label scores in a sentiment response.
MaxSentimentItems == 2

SentimentLabels == {"LABEL_0", "LABEL_1", "LABEL_2", "positive"}
\* 0.3015 (a tie of the rounding: 30.15 percent), 0.9876 and (out of range)
\* 1.2 in ten-thousandths.
Scores == {3015, 9876, 12000}
SentimentItems == [label : SentimentLabels, score : Scores]
\* The classifier answers with one score per label: the labels of a list
\* are distinct.
SentimentLists ==
  UNION {{items \in [1..n -> SentimentItems] :
            \A i, j \in 1..n : i # j => items[i].label # items[j].label} :
         n \in 1..MaxSentimentItems}

HFErrorBody == [dict |-> [error |-> "Model is currently loading"]]

HFResponses(analysis_type) ==
  Exceptions \cup
  CASE analysis_type = "summarize" ->
         {Json([list |-> <<>>]), Json(HFErrorBody),
          Json([list |-> <<[generated_text |-> <<"a", " ", "c", "a", "t", " ", "s", "a", "t">>]>>])}
         \cup {Json([list |-> <<[summary_text |-> s]>>]) : s \in Summaries}
    [] analysis_type = "sentiment" ->
         {Json([list |-> <<>>]), Json(HFErrorBody)}
         \cup {Json([list |-> items]) : items \in SentimentLists}
    [] OTHER ->
         {Json([list |-> <<>>]), Json(HFErrorBody)}
         \cup {Json([dict |-> [answer |-> a, score |-> s]]) : a \in Answers, s \in Scores}

CohereResponses(analysis_type) ==
  Exceptions \cup
  CASE analysis_type = "summarize" ->
         {Json([id |-> "c1"])}
         \cup {Json([id |-> "c1", summary |-> s]) : s \in Summaries}
    [] analysis_type = "sentiment" ->
         {Json([id |-> "c1"]), Json([id |-> "c1", generations |-> <<>>])}
         \cup {Json([id |-> "c1", generations |-> <<[text |-> t]>>]) : t \in Analyses}
    [] OTHER ->
         {Json([id |-> "c1"]), Json([id |-> "c1", generations |-> <<>>])}
         \cup {Json([id |-> "c1", generations |-> <<[text |-> t]>>]) : t \in Answers}

\* ------------------------------------------------------------------------
\* POST /analyze (analysis.py: analyze_text) and its collaborators
\* ------------------------------------------------------------------------

\* The frame of one analyze_text call: its position, its locals, what each
\* adapter returned to it and the HTTP response it ended with.
IdleFrame ==
  [pc |-> "idle", request |-> NoneDict, current_user |-> NoneDict,
   cleaned_text |-> NoneStr, analysis_result |-> NoneDict,
   pending |-> NoneDict,
   cohere_response |-> NoneDict, cohere_returned |-> NoneDict,
   hf_response |-> NoneDict, hf_returned |-> NoneDict,
   stored |-> "none", response |-> NoneDict]

\* raise HTTPException(status_code, detail)
HttpError(status, detail) == [status |-> status, detail |-> detail]

\* AuthService.verify_token: the email of the token data, or None.
verify_token(token) ==
  IF token.verifies /\ token.sub # "" THEN token.sub ELSE "None"

\* FirestoreService.get_user_by_email: the first document the query
\* where('email', '==', email).limit(1) streams, or None when the store is
\* disabled, the query raises or no document matches.
get_user_by_email(db, docs, email, query_ok) ==
  LET matches == {i \in DOMAIN docs : docs[i].email = email}
  IN  IF ~db \/ ~query_ok \/ matches = {} THEN NoneDict
      ELSE docs[CHOOSE i \in matches : \A k \in matches : i <= k]

\* A plausible slip: the user is looked up by the token's `sub` without
\* verifying the token.
get_current_user_unverified(db, docs, token, query_ok) ==
  get_user_by_email(db, docs, token.sub, query_ok)

\* AuthService.get_current_user
get_current_user(db, docs, token, query_ok) ==
  IF verify_token(token) = "None" THEN NoneDict
  ELSE get_user_by_email(db, docs, verify_token(token), query_ok)

\* A plausible slip: the clamp of analyze_text left out.
clamp_confidence_missing(result) == result

\* analyze_text, "Ensure confidence is properly capped at 100%":
\* if 'confidence' in result: result['confidence'] = min(.., 100.0)
clamp_confidence(result) ==
  IF "confidence" \in DOMAIN result
  THEN [result EXCEPT !.confidence = Min(result.confidence, ConfidenceCap)]
  ELSE result

\* AnalysisResponse(...): confidence=result.get('confidence') is left out of
\* the record when the result has no such key (None).
AnalysisResponse(analysis_type, result, message) ==
  LET base == [analysis_type |-> analysis_type, result |-> result,
               success |-> TRUE, message |-> message]
  IN  IF "confidence" \in DOMAIN result
      THEN [status |-> 200,
            body |-> [analysis_type |-> analysis_type, result |-> result,
                      success |-> TRUE, message |-> message,
                      confidence |-> result.confidence]]
      ELSE [status |-> 200, body |-> base]

\* A plausible slip: the fallback is attempted whatever the primary returned.
needs_fallback_always(analysis_result) == TRUE

\* `if not analysis_result or not analysis_result.get('success')`
needs_fallback(analysis_result) ==
  analysis_result = NoneDict \/ ~analysis_result.success

\* A plausible slip: the text check tests None / '' only, not strip().
text_missing_noStrip(text) == text = <<>>

\* `if not request.text or not request.text.strip()`
text_missing(text) == text = <<>> \/ Strip(text) = <<>>

\* A plausible slip: the prompt check tests `is None` instead of falsiness.
prompt_missing_noneOnly(analysis_type, prompt) ==
  analysis_type = "question" /\ prompt = NoneStr

\* `request.analysis_type == AnalysisType.QUESTION and not request.prompt`
prompt_missing(analysis_type, prompt) ==
  analysis_type = "question" /\ ~Truthy(prompt)

\* `if alternative_ai_service.cohere_api_key`
cohere_available(service) == service.cohere_api_key # ""

\* The handler of request r runs on the event loop's single thread: none of
\* its awaits suspends (the awaited coroutines and requests.post are
\* synchronous), so it holds the thread from its first step to its response.
OnLoop(r) == running \in {0, r}

\* The frame of r becomes f; the thread is released when f has responded.
Step(r, f) ==
  /\ handler' = [handler EXCEPT ![r] = f]
  /\ running' = IF f.pc = "done" THEN 0 ELSE r

Respond(r, response) ==
  Step(r, [handler[r] EXCEPT !.pc = "done", !.response = response])

\* A request arrives and FastAPI schedules analyze_text for it.
Receive(r) ==
  /\ handler[r].pc = "idle"
  /\ \E request \in AnalysisRequests :
       handler' = [handler EXCEPT ![r] = [IdleFrame EXCEPT !.pc = "validate",
                                                           !.request = request]]
  /\ UNCHANGED <<clean_vars, direct, ocr, auth_vars, env, ai_service, alternative_ai_service, firebase_db, users,
                 documents, outbound, running>>

\* "Validate input": the text and prompt checks.  (AnalysisType is a
\* non-empty str enum, so `not request.analysis_type` never holds.)
Validate(r) ==
  LET request == handler[r].request
  IN  /\ handler[r].pc = "validate"
      /\ OnLoop(r)
      /\ IF text_missing(request.text)
         THEN Respond(r, HttpError(400, "Text is required for analysis"))
         ELSE IF prompt_missing(request.analysis_type, request.prompt)
         THEN Respond(r, HttpError(400, MsgPromptRequired))
         ELSE Step(r, [handler[r] EXCEPT !.pc = "auth"])
      /\ UNCHANGED <<clean_vars, direct, ocr, auth_vars, env, ai_service, alternative_ai_service, firebase_db, users,
                     documents, outbound>>

\* "Get current user".  query_ok: whether the Firestore query went through.
Authenticate(r) ==
  /\ handler[r].pc = "auth"
  /\ OnLoop(r)
  /\ \E query_ok \in BOOLEAN :
       LET current_user == get_current_user(firebase_db, users,
                                            handler[r].request.credentials, query_ok)
       IN  IF current_user = NoneDict
           THEN Respond(r, HttpError(401, "Invalid authentication credentials"))
           ELSE Step(r, [handler[r] EXCEPT !.pc = "services",
                                           !.current_user = current_user])
  /\ UNCHANGED <<clean_vars, direct, ocr, auth_vars, env, ai_service, alternative_ai_service, firebase_db, users,
                 documents, outbound>>

\* get_services(): the module-level singletons are built on first use.
GetServices(r) ==
  /\ handler[r].pc = "services"
  /\ OnLoop(r)
  /\ ai_service' = IF ai_service = NoneDict
                   THEN AIAnalysisService_init(env) ELSE ai_service
  /\ alternative_ai_service' = IF alternative_ai_service = NoneDict
                               THEN AlternativeAIAnalysisService_init(env)
                               ELSE alternative_ai_service
  /\ Step(r, [handler[r] EXCEPT !.pc = "clean"])
  /\ UNCHANGED <<clean_vars, direct, ocr, auth_vars, env, firebase_db, users, documents, outbound>>

\* "Clean the text before analysis"
Clean(r) ==
  LET cleaned_text == clean_text(handler[r].request.text)
  IN  /\ handler[r].pc = "clean"
      /\ OnLoop(r)
      /\ IF cleaned_text = <<>>
         THEN Respond(r, HttpError(400, "No meaningful text found after cleaning"))
         ELSE Step(r, [handler[r] EXCEPT !.pc = "primary",
                                         !.cleaned_text = cleaned_text])
      /\ UNCHANGED <<clean_vars, direct, ocr, auth_vars, env, ai_service, alternative_ai_service, firebase_db, users,
                     documents, outbound>>

\* "Use Cohere service if available": the call of
\* alternative_ai_service.analyze_text up to its outbound request, if any.
TryPrimary(r) ==
  LET h == handler[r]
      pre == Cohere_preflight(alternative_ai_service, h.cleaned_text,
                              h.request.analysis_type, h.request.prompt)
  IN  /\ h.pc = "primary"
      /\ OnLoop(r)
      /\ IF ~cohere_available(alternative_ai_service)
         THEN /\ Step(r, [h EXCEPT !.pc = "fallback"])
              /\ UNCHANGED outbound
         ELSE IF pre.early
         THEN /\ Step(r, [h EXCEPT !.pc = "fallback",
                                   !.analysis_result = pre.outcome,
                                   !.cohere_returned = pre.outcome])
              /\ UNCHANGED outbound
         ELSE /\ Step(r, [h EXCEPT !.pc = "primary_wait", !.pending = pre.call])
              /\ outbound' = Append(outbound, [request |-> r, call |-> pre.call])
      /\ UNCHANGED <<clean_vars, direct, ocr, auth_vars, env, ai_service, alternative_ai_service, firebase_db, users,
                     documents>>

\* requests.post to Cohere returns or raises; the adapter builds its outcome.
PrimaryResponse(r) ==
  LET h == handler[r]
  IN  /\ h.pc = "primary_wait"
      /\ OnLoop(r)
      /\ \E resp \in CohereResponses(h.request.analysis_type) :
           LET outcome == Cohere_result(h.request.analysis_type, h.pending, resp)
           IN  Step(r, [h EXCEPT !.pc = "fallback", !.pending = NoneDict,
                                 !.cohere_response = resp,
                                 !.analysis_result = outcome,
                                 !.cohere_returned = outcome])
      /\ UNCHANGED <<clean_vars, direct, ocr, auth_vars, env, ai_service, alternative_ai_service, firebase_db, users,
                     documents, outbound>>

\* "Fallback to original service if Cohere fails or not available": the call
\* of ai_service.analyze_text up to its outbound request, if any.
TryFallback(r) ==
  LET h == handler[r]
      pre == HF_preflight(ai_service, h.cleaned_text, h.request.analysis_type,
                          h.request.prompt)
  IN  /\ h.pc = "fallback"
      /\ OnLoop(r)
      /\ IF ~needs_fallback(h.analysis_result)
         THEN /\ Step(r, [h EXCEPT !.pc = "finalize"])
              /\ UNCHANGED outbound
         ELSE IF pre.early
         THEN /\ Step(r, [h EXCEPT !.pc = "finalize",
                                   !.analysis_result = pre.outcome,
                                   !.hf_returned = pre.outcome])
              /\ UNCHANGED outbound
         ELSE /\ Step(r, [h EXCEPT !.pc = "fallback_wait", !.pending = pre.call])
              /\ outbound' = Append(outbound, [request |-> r, call |-> pre.call])
      /\ UNCHANGED <<clean_vars, direct, ocr, auth_vars, env, ai_service, alternative_ai_service, firebase_db, users,
                     documents>>

\* A plausible slip: the fallback's outcome is not bound to analysis_result.
FallbackResponse_resultNotBound(r) ==
  LET h == handler[r]
  IN  /\ h.pc = "fallback_wait"
      /\ OnLoop(r)
      /\ \E resp \in HFResponses(h.request.analysis_type) :
           LET outcome == HF_result(h.request.analysis_type, h.pending, resp)
           IN  Step(r, [h EXCEPT !.pc = "finalize", !.pending = NoneDict,
                                 !.hf_response = resp,
                                 !.analysis_result =
                                   IF @ = NoneDict THEN outcome ELSE @,
                                 !.hf_returned = outcome])
      /\ UNCHANGED <<clean_vars, direct, ocr, auth_vars, env, ai_service, alternative_ai_service,
                     firebase_db, users, documents, outbound>>

\* A plausible slip: the Hugging Face call is made again when it raised.
FallbackResponse_retryWhenRaised(r) ==
  LET h == handler[r]
  IN  /\ h.pc = "fallback_wait"
      /\ OnLoop(r)
      /\ \E resp \in HFResponses(h.request.analysis_type) :
           LET outcome == HF_result(h.request.analysis_type, h.pending, resp)
           IN  Step(r, [h EXCEPT !.pc = IF IsException(resp) THEN "fallback"
                                       ELSE "finalize",
                                 !.pending = NoneDict,
                                 !.hf_response = resp,
                                 !.analysis_result = outcome,
                                 !.hf_returned = outcome])
      /\ UNCHANGED <<clean_vars, direct, ocr, auth_vars, env, ai_service, alternative_ai_service, firebase_db, users,
                     documents, outbound>>

\* requests.post to Hugging Face returns or raises; the adapter builds its
\* outcome.
FallbackResponse(r) ==
  LET h == handler[r]
  IN  /\ h.pc = "fallback_wait"
      /\ OnLoop(r)
      /\ \E resp \in HFResponses(h.request.analysis_type) :
           LET outcome == HF_result(h.request.analysis_type, h.pending, resp)
           IN  Step(r, [h EXCEPT !.pc = "finalize", !.pending = NoneDict,
                                 !.hf_response = resp,
                                 !.analysis_result = outcome,
                                 !.hf_returned = outcome])
      /\ UNCHANGED <<clean_vars, direct, ocr, auth_vars, env, ai_service, alternative_ai_service, firebase_db, users,
                     documents, outbound>>

\* The dictionary object the clamp writes to is the one the adapter returned:
\* a frame with analysis_result replaced in it and in the *_returned field
\* that aliases it.
WithResult(h, result) ==
  LET clamped == [h.analysis_result EXCEPT !.result = result]
  IN  [h EXCEPT !.analysis_result = clamped,
                !.hf_returned = IF h.hf_returned # NoneDict THEN clamped ELSE @,
                !.cohere_returned = IF h.hf_returned = NoneDict THEN clamped ELSE @]

\* A plausible slip: the result is handed to the store before the clamp.
Finalize_storeBeforeClamp(r) ==
  LET h == handler[r]
      result == clamp_confidence(h.analysis_result.result)
      g == WithResult(h, result)
  IN  /\ h.pc = "finalize"
      /\ OnLoop(r)
      /\ IF ~h.analysis_result.success
         THEN Respond(r, HttpError(422, h.analysis_result.message))
         ELSE IF Truthy(h.request.document_id)
         THEN Step(r, [h EXCEPT !.pc = "store"])
         ELSE Step(r, [g EXCEPT !.pc = "done",
                                !.response = AnalysisResponse(
                                  h.request.analysis_type, result,
                                  h.analysis_result.message)])
      /\ UNCHANGED <<clean_vars, direct, ocr, auth_vars, env, ai_service, alternative_ai_service, firebase_db, users,
                     documents, outbound>>

\* The failure check, the confidence clamp and, without a document_id, the
\* response.
Finalize(r) ==
  LET h == handler[r]
      result == clamp_confidence(h.analysis_result.result)
      g == WithResult(h, result)
  IN  /\ h.pc = "finalize"
      /\ OnLoop(r)
      /\ IF ~h.analysis_result.success
         THEN Respond(r, HttpError(422, h.analysis_result.message))
         ELSE IF Truthy(h.request.document_id)
         THEN Step(r, [g EXCEPT !.pc = "store"])
         ELSE Step(r, [g EXCEPT !.pc = "done",
                                !.response = AnalysisResponse(
                                  h.request.analysis_type, result,
                                  h.analysis_result.message)])
      /\ UNCHANGED <<clean_vars, direct, ocr, auth_vars, env, ai_service, alternative_ai_service, firebase_db, users,
                     documents, outbound>>

\* The values datetime.utcnow() takes at the calls that store a record.
Timestamps == {"t1", "t2"}

\* add_analysis_to_document: the analysis_record it builds.
analysis_record(analysis_type, result, timestamp, prompt) ==
  [type |-> analysis_type, result |-> result, timestamp |-> timestamp,
   prompt |-> prompt]

RECURSIVE ArrayUnion(_, _)
\* firestore.ArrayUnion(elements) applied to an array field: the elements
\* not already present are added at the end, in order.
ArrayUnion(array, elements) ==
  IF elements = <<>> THEN array
  ELSE ArrayUnion(IF \E i \in DOMAIN array : array[i] = Head(elements)
                  THEN array ELSE Append(array, Head(elements)),
                  Tail(elements))

\* The user_id an extraction document was created with
\* (create_extraction_document); nothing updates it.  The documents of the
\* model are those of the user registered from the start.
DocumentOwner(document_id) == "uid-1"

\* DELETE /api/user/extractions/{document_id} (delete_user_extraction) when
\* it goes through: the caller authenticated, the document read back, its
\* user_id the id of the caller and
\* FirestoreService.delete_extraction_document successful.  On every other
\* path the handler answers 401, 404, 403 or 500 and changes nothing.  None
\* of its awaits suspends, so it runs when the event loop is free.
DeleteDocument ==
  /\ running = 0
  /\ firebase_db
  /\ \E token \in BearerTokens, query_ok \in BOOLEAN,
        document_id \in DOMAIN documents :
       LET current_user == get_current_user(firebase_db, users, token, query_ok)
       IN  /\ current_user # NoneDict
           /\ DocumentOwner(document_id) = current_user.id
           /\ documents' = [d \in DOMAIN documents \ {document_id} |-> documents[d]]
  /\ UNCHANGED <<clean_vars, direct, ocr, auth_vars, env, ai_service,
                 alternative_ai_service, firebase_db, users, outbound, handler,
                 running>>

\* A plausible slip: a failed attachment is answered as an internal error.
Store_failurePropagates(r) ==
  LET h == handler[r]
      id == h.request.document_id
      response == AnalysisResponse(h.request.analysis_type,
                                   h.analysis_result.result,
                                   h.analysis_result.message)
  IN  /\ h.pc = "store"
      /\ OnLoop(r)
      /\ \E update_ok \in BOOLEAN, timestamp \in Timestamps :
           IF firebase_db /\ update_ok /\ id \in DOMAIN documents
           THEN /\ documents' =
                     [documents EXCEPT ![id] = ArrayUnion(@, <<analysis_record(
                        h.request.analysis_type, h.analysis_result.result,
                        timestamp, h.request.prompt)>>)]
                /\ Step(r, [h EXCEPT !.pc = "done", !.stored = "yes",
                                     !.response = response])
           ELSE /\ UNCHANGED documents
                /\ Step(r, [h EXCEPT !.pc = "done", !.stored = "failed",
                                     !.response =
                                       HttpError(500, "Failed to store analysis result")])
      /\ UNCHANGED <<clean_vars, direct, ocr, auth_vars, env, ai_service, alternative_ai_service, firebase_db, users,
                     outbound>>

\* FirestoreService.add_analysis_to_document: False when the store is
\* disabled or the update raises (a missing or deleted document included),
\* else the record joins the document's analyses by ArrayUnion.
Store(r) ==
  LET h == handler[r]
      id == h.request.document_id
      response == AnalysisResponse(h.request.analysis_type,
                                   h.analysis_result.result,
                                   h.analysis_result.message)
  IN  /\ h.pc = "store"
      /\ OnLoop(r)
      /\ \E update_ok \in BOOLEAN, timestamp \in Timestamps :
           IF firebase_db /\ update_ok /\ id \in DOMAIN documents
           THEN /\ documents' =
                     [documents EXCEPT ![id] = ArrayUnion(@, <<analysis_record(
                        h.request.analysis_type, h.analysis_result.result,
                        timestamp, h.request.prompt)>>)]
                /\ Step(r, [h EXCEPT !.pc = "done", !.stored = "yes",
                                     !.response = response])
           ELSE /\ UNCHANGED documents
                /\ Step(r, [h EXCEPT !.pc = "done", !.stored = "failed",
                                     !.response = response])
      /\ UNCHANGED <<clean_vars, direct, ocr, auth_vars, env, ai_service, alternative_ai_service, firebase_db, users,
                     outbound>>

InitServer ==
  /\ env \in Environments
  /\ ai_service = NoneDict
  /\ alternative_ai_service = NoneDict
  /\ firebase_db \in BOOLEAN
  /\ users = <<[id |-> "uid-1", email |-> RegisteredEmail]>>
  /\ documents = [d \in {DocumentId} |-> <<>>]
  /\ outbound = <<>>
  /\ handler = [r \in Requests |-> IdleFrame]
  /\ running = 0

server_vars == <<env, ai_service, alternative_ai_service, firebase_db, users,
                 documents, outbound, handler, running>>

CleanOff ==
  /\ clean_pc = "off"
  /\ raw_text = <<>>
  /\ unique_lines = <<>>
  /\ cleaned_once = <<>>
  /\ cleaned_twice = <<>>

\* Spec: one /analyze request, from its arrival to its response, under every
\* environment.
DirectOff == direct = NoneDict

OcrOff == ocr = NoneDict

\* bcrypt: the hash of a password verifies that password only.
get_password_hash(password) == [scheme |-> "bcrypt", of |-> password]

\* No reset token: the fields reset_token and reset_token_expires are absent.
NoToken == 0

\* The password and reset-token fields of the registered user's document.
InitAccounts ==
  [id \in {"uid-1"} |->
     [hashed_password |-> get_password_hash("old-password"),
      reset_token |-> NoToken, reset_token_expires |-> 0]]

AuthOff ==
  /\ accounts = InitAccounts
  /\ clock = 0
  /\ issued = 0
  /\ auth_log = <<>>

Init == InitServer /\ CleanOff /\ DirectOff /\ OcrOff /\ AuthOff

Next ==
  \/ Receive(1)
  \/ Validate(1)
  \/ Authenticate(1)
  \/ GetServices(1)
  \/ Clean(1)
  \/ TryPrimary(1)
  \/ PrimaryResponse(1)
  \/ TryFallback(1)
  \/ FallbackResponse(1)
  \/ Finalize(1)
  \/ Store(1)
  \/ DeleteDocument

\* ------------------------------------------------------------------------
\* SpecClean: clean_text applied to every string over Char up to MaxLen,
\* and applied again to its own output.
\* ------------------------------------------------------------------------

Texts == UNION {[1..n -> Char] : n \in 0..MaxLen}

InitClean ==
  /\ env = [COHERE_API_KEY |-> "", HUGGING_FACE_API_TOKEN |-> ""]
  /\ ai_service = NoneDict
  /\ alternative_ai_service = NoneDict
  /\ firebase_db = FALSE
  /\ users = <<>>
  /\ documents = [d \in {DocumentId} |-> <<>>]
  /\ outbound = <<>>
  /\ handler = [r \in Requests |-> IdleFrame]
  /\ running = 0
  /\ clean_pc = "input"
  /\ raw_text \in Texts
  /\ unique_lines = <<>>
  /\ cleaned_once = <<>>
  /\ cleaned_twice = <<>>
  /\ direct = NoneDict
  /\ OcrOff
  /\ AuthOff

ApplyClean ==
  /\ clean_pc = "input"
  /\ clean_pc' = "once"
  /\ unique_lines' = (IF raw_text = <<>> THEN <<>> ELSE UniqueLines(KeptLines(raw_text)))
  /\ cleaned_once' = clean_text(raw_text)
  /\ UNCHANGED <<raw_text, cleaned_twice, server_vars, direct, ocr, auth_vars>>

ApplyCleanAgain ==
  /\ clean_pc = "once"
  /\ clean_pc' = "twice"
  /\ cleaned_twice' = clean_text(cleaned_once)
  /\ UNCHANGED <<raw_text, unique_lines, cleaned_once, server_vars, direct, ocr, auth_vars>>

NextClean == ApplyClean \/ ApplyCleanAgain

vars == <<clean_vars, server_vars, direct, ocr, auth_vars>>

Spec == Init /\ [][Next]_vars

SpecClean == InitClean /\ [][NextClean]_vars

\* ------------------------------------------------------------------------
\* SpecAdapter: the public method analyze_text(text, analysis_type, prompt)
\* of one adapter called on its own, under every environment, as a caller
\* other than the endpoint may do.  The call cleans the text and dispatches
\* on the analysis type itself; calls of the private methods
\* (_summarize_text and the like, which src/test_cohere_only.py makes with a
\* raw text) are not frames of this specification.
\* ------------------------------------------------------------------------

Adapters == {"huggingface", "cohere"}

\* Length of the long text: above every truncation bound of sentiment.
LongLen == 600
\* LongLen characters in five-letter words.
TextLong == [i \in 1..LongLen |-> IF i % 6 = 0 THEN " " ELSE "a"]
\* 22 characters, six words, four of them longer than two characters.
TextFewWords == <<"t", "h", "e", " ", "c", "a", "t", " ", "s", "a", "t", " ",
     "d", "o", "w", "n", " ", "a", "t", " ", "i", "t">>

DirectTexts == RequestTexts \cup {TextLong, TextFewWords}

DirectFrames ==
  [pc : {"call"}, adapter : Adapters, text : DirectTexts,
   analysis_type : AnalysisTypes, prompt : Prompts,
   pending : {NoneDict}, response : {NoneDict}, outcome : {NoneDict}]

InitAdapter ==
  /\ InitServer
  /\ CleanOff
  /\ direct \in DirectFrames
  /\ OcrOff
  /\ AuthOff

\* service = AIAnalysisService() / AlternativeAIAnalysisService();
\* service.analyze_text(text, analysis_type, prompt) up to its outbound call.
DirectPreflight(frame) ==
  IF frame.adapter = "huggingface"
  THEN HF_preflight(AIAnalysisService_init(env), frame.text,
                    frame.analysis_type, frame.prompt)
  ELSE Cohere_preflight(AlternativeAIAnalysisService_init(env), frame.text,
                        frame.analysis_type, frame.prompt)

\* The adapter is called: it returns at once, or makes its outbound call.
DirectCall ==
  /\ direct # NoneDict
  /\ direct.pc = "call"
  /\ LET pre == DirectPreflight(direct)
     IN  IF pre.early
         THEN /\ direct' = [direct EXCEPT !.pc = "returned", !.outcome = pre.outcome]
              /\ UNCHANGED outbound
         ELSE /\ direct' = [direct EXCEPT !.pc = "wait", !.pending = pre.call]
              /\ outbound' = Append(outbound, [request |-> 0, call |-> pre.call])
  /\ UNCHANGED <<clean_vars, ocr, auth_vars, env, ai_service, alternative_ai_service,
                 firebase_db, users, documents, handler, running>>

\* requests.post returns or raises; the adapter builds its outcome.
DirectResponse ==
  /\ direct # NoneDict
  /\ direct.pc = "wait"
  /\ \E resp \in IF direct.adapter = "huggingface"
                 THEN HFResponses(direct.analysis_type)
                 ELSE CohereResponses(direct.analysis_type) :
       direct' = [direct EXCEPT
                    !.pc = "returned",
                    !.response = resp,
                    !.outcome = IF direct.adapter = "huggingface"
                                THEN HF_result(direct.analysis_type, direct.pending, resp)
                                ELSE Cohere_result(direct.analysis_type, direct.pending, resp)]
  /\ UNCHANGED <<clean_vars, server_vars, ocr, auth_vars>>

NextAdapter == DirectCall \/ DirectResponse

SpecAdapter == InitAdapter /\ [][NextAdapter]_vars

\* ------------------------------------------------------------------------
\* SpecOcr: POST /extract-text from "Get current user" on (the upload has
\* passed the checks of its type, size and content), under every answer of
\* OCR.space.
\* ------------------------------------------------------------------------

\* '\n'.join(texts)
RECURSIVE JoinLines(_)
JoinLines(texts) ==
  IF texts = <<>> THEN <<>>
  ELSE IF Len(texts) = 1 THEN texts[1]
  ELSE texts[1] \o <<"\n">> \o JoinLines(Tail(texts))

\* Longest ParsedResults list of an OCR response.
MaxParsedResults == 2

\* What OCR.space reads in one image: nothing, blanks, one-character lines
\* only, a word, repeated lines with noise.
OcrTexts == {<<>>, <<" ">>, TextNoise, TextFive, TextValidDup}

\* An entry of ParsedResults, with or without its ParsedText.
ParsedResultItems ==
  {[FileParseExitCode |-> 1]}
  \cup {[FileParseExitCode |-> 1, ParsedText |-> t] : t \in OcrTexts}

OcrResponses ==
  {Raised("Timeout", "Read timed out"),
   Raised("RequestException", "503 Server Error"),
   Raised("Exception", "unexpected response body"),
   Json([IsErroredOnProcessing |-> TRUE, ErrorMessage |-> "Unable to recognize the file type"]),
   Json([IsErroredOnProcessing |-> TRUE]),
   Json([IsErroredOnProcessing |-> FALSE]),
   Json([IsErroredOnProcessing |-> FALSE, ParsedResults |-> <<>>])}
  \cup {Json([IsErroredOnProcessing |-> FALSE, ParsedResults |-> items]) :
          items \in UNION {[1..n -> ParsedResultItems] : n \in 1..MaxParsedResults}}

OcrFailure(msg) == [success |-> FALSE, text |-> <<>>, message |-> msg]

\* OCRService.extract_text_from_image from the response of requests.post on.
extract_text_from_image(resp) ==
  IF IsException(resp)
  THEN IF resp.class = "Timeout"
       THEN OcrFailure("OCR service timeout: The request took too long to complete. Please try again.")
       ELSE IF resp.class = "RequestException"
       THEN OcrFailure("Network error: " \o resp.err)
       ELSE OcrFailure("Unexpected error: " \o resp.err)
  ELSE LET result == resp.json
           parsed_results == IF "ParsedResults" \in DOMAIN result
                             THEN result.ParsedResults ELSE <<>>
           extracted_text ==
             Strip(JoinLines([i \in DOMAIN parsed_results |->
                                IF "ParsedText" \in DOMAIN parsed_results[i]
                                THEN parsed_results[i].ParsedText ELSE <<>>]))
       IN  IF "IsErroredOnProcessing" \in DOMAIN result /\ result.IsErroredOnProcessing
           THEN OcrFailure("OCR processing failed: " \o
                             (IF "ErrorMessage" \in DOMAIN result
                              THEN result.ErrorMessage ELSE "Unknown OCR error"))
           ELSE IF parsed_results = <<>>
           THEN OcrFailure("No text found in the image")
           ELSE IF extracted_text = <<>>
           THEN OcrFailure("No text could be extracted from the image")
           ELSE [success |-> TRUE, text |-> clean_text(extracted_text),
                 message |-> "Text extracted and cleaned successfully"]

OcrFrames ==
  [pc : {"auth"}, credentials : BearerTokens, response : OcrResponses,
   current_user : {NoneDict}, result : {NoneDict}, http : {NoneDict}]

InitOcr ==
  /\ InitServer
  /\ CleanOff
  /\ DirectOff
  /\ AuthOff
  /\ ocr \in OcrFrames

\* current_user = await auth_service.get_current_user(token): 401 when the
\* token does not verify or the user is not found (the store disabled or the
\* query failed included).  query_ok: whether the Firestore query went
\* through.
OcrAuthenticate ==
  /\ ocr # NoneDict
  /\ ocr.pc = "auth"
  /\ \E query_ok \in BOOLEAN :
       LET current_user == get_current_user(firebase_db, users, ocr.credentials,
                                            query_ok)
       IN  IF current_user = NoneDict
           THEN ocr' = [ocr EXCEPT !.pc = "done",
                          !.http = HttpError(401, "Invalid authentication credentials")]
           ELSE ocr' = [ocr EXCEPT !.pc = "call", !.current_user = current_user]
  /\ UNCHANGED <<clean_vars, server_vars, direct, auth_vars>>

\* The request OCRService.extract_text_from_image posts.
OcrCall ==
  [provider |-> "ocr.space", url |-> "https://api.ocr.space/parse/image",
   language |-> "eng", OCREngine |-> 2, timeout |-> 60]

\* ocr_result = await ocr_service.extract_text_from_image(image_data, filename):
\* the post to OCR.space and the result built from what it returns or raises.
OcrExtract ==
  /\ ocr # NoneDict
  /\ ocr.pc = "call"
  /\ outbound' = Append(outbound, [request |-> 0, call |-> OcrCall])
  /\ ocr' = [ocr EXCEPT !.pc = "returned",
                        !.result = extract_text_from_image(ocr.response)]
  /\ UNCHANGED <<clean_vars, direct, auth_vars, env, ai_service,
                 alternative_ai_service, firebase_db, users, documents, handler,
                 running>>

NewDocumentId == <<"d", "2">>
\* 'demo-doc-id' and 'error-doc-id'
DemoDocumentId == <<"d", "e", "m", "o", "-", "d", "o", "c", "-", "i", "d">>
ErrorDocumentId == <<"e", "r", "r", "o", "r", "-", "d", "o", "c", "-", "i", "d">>

TextExtractionResponse(text, document_id) ==
  [status |-> 200,
   body |-> [text |-> text, success |-> TRUE,
             message |-> "Text extracted successfully",
             document_id |-> document_id]]

\* The endpoint after the OCR call: 422 for a failure, else the document is
\* created (create_extraction_document answers 'demo-doc-id' when the store
\* is disabled and 'error-doc-id' when the write fails) and the text returned.
\* The caller was found in the store, so the endpoint never gets the
\* 'demo-doc-id' answer.
OcrRespond ==
  /\ ocr # NoneDict
  /\ ocr.pc = "returned"
  /\ IF ~ocr.result.success
     THEN /\ ocr' = [ocr EXCEPT !.pc = "done",
                       !.http = HttpError(422, "Text extraction failed: " \o
                                                 ocr.result.message)]
          /\ UNCHANGED documents
     ELSE \E add_ok \in BOOLEAN :
            IF ~firebase_db
            THEN /\ ocr' = [ocr EXCEPT !.pc = "done",
                              !.http = TextExtractionResponse(ocr.result.text,
                                                              DemoDocumentId)]
                 /\ UNCHANGED documents
            ELSE IF ~add_ok
            THEN /\ ocr' = [ocr EXCEPT !.pc = "done",
                              !.http = TextExtractionResponse(ocr.result.text,
                                                              ErrorDocumentId)]
                 /\ UNCHANGED documents
            ELSE /\ ocr' = [ocr EXCEPT !.pc = "done",
                              !.http = TextExtractionResponse(ocr.result.text,
                                                              NewDocumentId)]
                 /\ documents' = [d \in DOMAIN documents \cup {NewDocumentId} |->
                                    IF d \in DOMAIN documents THEN documents[d]
                                    ELSE <<>>]
  /\ UNCHANGED <<clean_vars, direct, auth_vars, env, ai_service, alternative_ai_service,
                 firebase_db, users, outbound, handler, running>>

NextOcr == OcrAuthenticate \/ OcrExtract \/ OcrRespond

SpecOcr == InitOcr /\ [][NextOcr]_vars

\* ------------------------------------------------------------------------
\* SpecAuth: POST /register, POST /forgot-password and POST /reset-password
\* (api/auth.py) over AuthService and the users collection, with every
\* Firestore call and the mail delivery free to fail.
\* ------------------------------------------------------------------------

\* timedelta(hours=1), in half hours.
TokenLifetime == 2
\* Tokens generate_reset_token hands out within one behaviour.
MaxTokens == 2
\* Half hours that pass within one behaviour.
MaxClock == 3
\* Calls of the three endpoints answered within one behaviour.
MaxAuthCalls == 3
\* Calls of POST /register among them.
MaxRegistrations == 1

Emails == {RegisteredEmail, UnknownEmail}
NewPasswords == {"new-1", "new-2"}
RegistrationPasswords == {"first-password"}
\* Tokens a caller may present: those handed out so far, and one never
\* handed out (secrets.token_urlsafe(32) is not guessed before it is drawn).
PresentedTokens(made) == 1..made \cup {MaxTokens + 1}

\* The call that fails within one operation, if any: the user query of
\* get_user_by_email (made twice by reset_password), a Firestore read or
\* update, the SMTP delivery.  In forgot-password and reset-password every
\* failure but that of clear_reset_token ends the operation, so no second
\* failure can be observed.
ForgotFailures == {"none", "query", "store", "email"}
ResetFailures == {"none", "query", "get", "query_again", "update", "clear"}
\* register_user goes on to create_user after a failed query, which
\* get_user_by_email answers with None, so both of its calls may fail.
RegisterFailures == {"none", "query", "create", "query+create"}

\* The ids collection.add gives the documents it creates, in the order of
\* their creation.  Firestore draws them at random.
AutoIds == <<"auto-1", "auto-2", "auto-3", "auto-4", "auto-5", "auto-6">>

\* A query without order_by streams its documents by id, so a document with
\* a random id may come at any place.  The only query made is the one by
\* email, which sees the order of the documents of one email and nothing
\* else: the places of a new document that it can tell apart are the end of
\* the collection and the place before each document of the same email.
Places(docs, email) ==
  {i \in DOMAIN docs : docs[i].email = email} \cup {Len(docs) + 1}

\* The collection docs with document d put at place position.
InsertAt(docs, position, d) ==
  SubSeq(docs, 1, position - 1) \o <<d>> \o SubSeq(docs, position, Len(docs))

\* FirestoreService.create_user: the id it returns and the users collection
\* after it.  The new document has no reset-token fields.
create_user(db, docs, accts, user_data, position, ok) ==
  LET made == {i \in DOMAIN docs : \E k \in DOMAIN AutoIds : docs[i].id = AutoIds[k]}
      id == AutoIds[Cardinality(made) + 1]
  IN  IF ~db THEN [id |-> "demo-user-id", users |-> docs, accounts |-> accts]
      ELSE IF ~ok THEN [id |-> "error-user-id", users |-> docs, accounts |-> accts]
      ELSE [id |-> id,
            users |-> InsertAt(docs, position, [id |-> id, email |-> user_data.email]),
            accounts |->
              [a \in DOMAIN accts \cup {id} |->
                 IF a = id
                 THEN [hashed_password |-> user_data.hashed_password,
                       reset_token |-> NoToken, reset_token_expires |-> 0]
                 ELSE accts[a]]]

\* AuthService.register_user behind POST /register: the response and the
\* users collection after it.  A failed query reads as "no such user", and
\* the id create_user returns is answered whatever it is.
register_user(db, docs, accts, email, password, position, failing) ==
  LET existing_user == get_user_by_email(db, docs, email,
                                         failing \notin {"query", "query+create"})
      user_doc == [email |-> email, hashed_password |-> get_password_hash(password)]
      created == create_user(db, docs, accts, user_doc, position,
                             failing \notin {"create", "query+create"})
  IN  IF existing_user # NoneDict
      THEN [response |-> HttpError(400, "Email already registered"),
            users |-> docs, accounts |-> accts]
      ELSE [response |-> [status |-> 200,
                          body |-> [id |-> created.id, email |-> email,
                                    is_active |-> TRUE]],
            users |-> created.users, accounts |-> created.accounts]

\* FirestoreService.store_reset_token
store_reset_token(db, accts, user_id, reset_token, expires, ok) ==
  IF ~db \/ ~ok THEN [ok |-> FALSE, accounts |-> accts]
  ELSE [ok |-> TRUE,
        accounts |-> [accts EXCEPT ![user_id].reset_token = reset_token,
                                   ![user_id].reset_token_expires = expires]]

\* doc.to_dict() of the google-cloud-firestore client gives a timestamp
\* field as a datetime with tzinfo set to UTC, whatever was written.
TimestampsAware == TRUE

\* FirestoreService.get_reset_token: None when the store is disabled, the
\* read raises or the document has no token fields.  The expiry was written
\* as a naive datetime (utcnow() + timedelta) and is handed on as the client
\* gives it: aware with the Firestore client, naive only with a store that
\* returns what was written.
get_reset_token(db, accts, user_id, ok, aware) ==
  IF ~db \/ ~ok \/ accts[user_id].reset_token = NoToken THEN NoneDict
  ELSE [token |-> accts[user_id].reset_token,
        expires |-> [at |-> accts[user_id].reset_token_expires,
                     tzinfo |-> IF aware THEN "UTC" ELSE "None"]]

\* FirestoreService.clear_reset_token
clear_reset_token(db, accts, user_id, ok) ==
  IF ~db \/ ~ok THEN [ok |-> FALSE, accounts |-> accts]
  ELSE [ok |-> TRUE,
        accounts |-> [accts EXCEPT ![user_id].reset_token = NoToken,
                                   ![user_id].reset_token_expires = 0]]

\* FirestoreService.update_user_password
update_user_password(db, accts, user_id, hashed_password, ok) ==
  IF ~db \/ ~ok THEN [ok |-> FALSE, accounts |-> accts]
  ELSE [ok |-> TRUE,
        accounts |-> [accts EXCEPT ![user_id].hashed_password = hashed_password]]

\* AuthService.request_password_reset: its return value, the users
\* collection after it and the number of tokens generated so far.
request_password_reset(db, docs, accts, now, made, email, failing) ==
  LET user == get_user_by_email(db, docs, email, failing # "query")
      reset_token == made + 1
      reset_expires == now + TokenLifetime
      token_stored == store_reset_token(db, accts, user.id, reset_token,
                                        reset_expires, failing # "store")
  IN  IF user = NoneDict
      THEN [success |-> FALSE, accounts |-> accts, issued |-> made]
      ELSE IF ~token_stored.ok
      THEN [success |-> FALSE, accounts |-> accts, issued |-> reset_token]
      ELSE [success |-> failing # "email", accounts |-> token_stored.accounts,
            issued |-> reset_token]

\* AuthService.validate_reset_token.  `and` evaluates the comparison with
\* utcnow(), a naive datetime, only when the tokens are equal; against an
\* aware datetime it raises TypeError, which the except branch turns into
\* False.
validate_reset_token(db, docs, accts, aware, now, email, reset_token, failing) ==
  LET user == get_user_by_email(db, docs, email, failing # "query")
      stored_token == get_reset_token(db, accts, user.id, failing # "get", aware)
  IN  IF user = NoneDict THEN FALSE
      ELSE IF stored_token = NoneDict THEN FALSE
      ELSE IF stored_token.token # reset_token THEN FALSE
      ELSE IF stored_token.expires.tzinfo # "None" THEN FALSE
      ELSE stored_token.expires.at > now

\* AuthService.reset_password: its return value and the users collection
\* after it.  The value clear_reset_token returns is not looked at.
reset_password(db, docs, accts, aware, now, email, reset_token, new_password, failing) ==
  LET user == get_user_by_email(db, docs, email, failing # "query_again")
      updated == update_user_password(db, accts, user.id,
                                      get_password_hash(new_password), failing # "update")
      cleared == clear_reset_token(db, updated.accounts, user.id, failing # "clear")
  IN  IF ~validate_reset_token(db, docs, accts, aware, now, email, reset_token, failing)
      THEN [success |-> FALSE, accounts |-> accts]
      ELSE IF user = NoneDict
      THEN [success |-> FALSE, accounts |-> accts]
      ELSE IF updated.ok
      THEN [success |-> TRUE, accounts |-> cleared.accounts]
      ELSE [success |-> FALSE, accounts |-> accts]

\* PasswordResetResponse(message=..., success=...)
PasswordResetResponse(message, success) ==
  [status |-> 200, body |-> [message |-> message, success |-> success]]

MsgResetLinkSent ==
  "If an account with this email exists, a password reset link has been sent."

\* A plausible slip: the failure branch of forgot_password says so.
forgot_password_response_revealing(success) ==
  PasswordResetResponse(MsgResetLinkSent, success)

\* forgot_password: the response for either value of `success`.
forgot_password_response(success) ==
  IF success
  THEN PasswordResetResponse(MsgResetLinkSent, TRUE)
  ELSE PasswordResetResponse(MsgResetLinkSent, TRUE)

\* reset_password (api/auth.py): 200 or 400.
reset_password_response(success) ==
  IF success
  THEN PasswordResetResponse(
         "Password has been reset successfully. You can now login with your new password.",
         TRUE)
  ELSE HttpError(400, "Invalid or expired reset token")

InitAuth ==
  /\ InitServer
  /\ env = [COHERE_API_KEY |-> "", HUGGING_FACE_API_TOKEN |-> ""]
  /\ CleanOff /\ DirectOff /\ OcrOff
  /\ accounts = InitAccounts
  /\ clock = 0
  /\ issued = 0
  /\ auth_log = <<>>

\* POST /register.  None of its awaits suspends, so it runs when the event
\* loop is free.
Register ==
  /\ running = 0
  /\ Len(auth_log) < MaxAuthCalls
  /\ Cardinality({i \in DOMAIN auth_log : auth_log[i].op = "register"}) < MaxRegistrations
  /\ \E email \in Emails, password \in RegistrationPasswords,
        failing \in RegisterFailures :
       \E position \in Places(users, email) :
         LET out == register_user(firebase_db, users, accounts, email, password,
                                  position, failing)
         IN  /\ users' = out.users
             /\ accounts' = out.accounts
             /\ auth_log' = Append(auth_log,
                  [op |-> "register", email |-> email,
                   reset_token |-> NoToken,
                   success |-> out.response.status = 200,
                   before |-> accounts, after |-> out.accounts,
                   response |-> out.response])
  /\ UNCHANGED <<clean_vars, direct, ocr, env, ai_service, alternative_ai_service,
                 firebase_db, documents, outbound, handler, running, clock,
                 issued>>

\* POST /forgot-password
ForgotPassword ==
  /\ Len(auth_log) < MaxAuthCalls
  /\ issued < MaxTokens
  /\ \E email \in Emails, failing \in ForgotFailures :
       LET out == request_password_reset(firebase_db, users, accounts, clock,
                                         issued, email, failing)
       IN  /\ accounts' = out.accounts
           /\ issued' = out.issued
           /\ auth_log' = Append(auth_log,
                [op |-> "forgot-password", email |-> email,
                 reset_token |-> NoToken, success |-> out.success,
                 before |-> accounts, after |-> out.accounts,
                 response |-> forgot_password_response(out.success)])
  /\ UNCHANGED <<clean_vars, server_vars, direct, ocr, clock>>

\* POST /reset-password
ResetPassword ==
  /\ Len(auth_log) < MaxAuthCalls
  /\ \E email \in Emails, reset_token \in PresentedTokens(issued),
        new_password \in NewPasswords, failing \in ResetFailures :
       LET out == reset_password(firebase_db, users, accounts, TimestampsAware,
                                 clock, email, reset_token, new_password, failing)
       IN  /\ accounts' = out.accounts
           /\ auth_log' = Append(auth_log,
                [op |-> "reset-password", email |-> email,
                 reset_token |-> reset_token, success |-> out.success,
                 before |-> accounts, after |-> out.accounts,
                 response |-> reset_password_response(out.success)])
  /\ UNCHANGED <<clean_vars, server_vars, direct, ocr, clock, issued>>

\* Half an hour passes.
Tick ==
  /\ clock < MaxClock
  /\ clock' = clock + 1
  /\ UNCHANGED <<clean_vars, server_vars, direct, ocr, accounts, issued, auth_log>>

NextAuth == Register \/ ForgotPassword \/ ResetPassword \/ Tick

SpecAuth == InitAuth /\ [][NextAuth]_vars

\* ========================================================================
\* Claims
\* ========================================================================

Occurrences(line, lines) == Cardinality({i \in DOMAIN lines : lines[i] = line})

\* The lines of the input that occur in it more than once.
RepeatedLines(text) ==
  LET ls == SplitLines(text)
  IN  {ls[i] : i \in {j \in DOMAIN ls : Occurrences(ls[j], ls) > 1}}

\* C6: clean_text is idempotent: cleaning an already cleaned string returns
\* it unchanged, for every input string (line breaks, repeated lines,
\* one-character lines, runs of whitespace included).
C6_CleanIdempotent ==
  clean_pc = "twice" => cleaned_twice = cleaned_once

\* C6 witness: an input with several lines that cleaning changed into a
\* non-empty string has been cleaned twice.
C6_Witness ==
  /\ clean_pc = "twice"
  /\ Len(SplitLines(raw_text)) > 1
  /\ cleaned_once # <<>>
  /\ cleaned_once # raw_text

\* C7 as stated: every line that the input contains more than once survives
\* exactly once in the cleaned output.  Refuted by a repeated line of fewer
\* than two characters, which the noise filter removes altogether.
C7_RepeatedLineExactlyOnce ==
  clean_pc \in {"once", "twice"} =>
    \A l \in RepeatedLines(raw_text) : Occurrences(Strip(l), unique_lines) = 1

\* C7 amended: a line that the input contains more than once survives, in its
\* trimmed form, exactly once among the lines joined into the cleaned output
\* when that form has at least two characters, and not at all when it is
\* shorter.
C7_RepeatedLineOnceOrDropped ==
  clean_pc \in {"once", "twice"} =>
    \A l \in RepeatedLines(raw_text) :
      Occurrences(Strip(l), unique_lines) = (IF Len(Strip(l)) >= 2 THEN 1 ELSE 0)

\* C7 witness: clean_text has run on an input that repeats a line of at
\* least two characters, and the cleaned output is that line.
C7_Witness ==
  /\ clean_pc = "once"
  /\ \E l \in RepeatedLines(raw_text) : Len(Strip(l)) >= 2 /\ cleaned_once = Strip(l)

\* ------------------------------------------------------------------------
\* Claims about POST /analyze and the adapters (Spec)
\* ------------------------------------------------------------------------

Done(r) == handler[r].pc = "done"

\* The outbound calls made on behalf of request r.
CallsOf(r) == {i \in DOMAIN outbound : outbound[i].request = r}

\* The request has reached the handler.
Received(r) == handler[r].pc # "idle"

\* C1: when Cohere is configured and its call returns success=false while
\* the Hugging Face call returns success=true, analyze answers 200 with the
\* result and the message of the Hugging Face outcome.
C1_FallbackResultReturned ==
  \A r \in Requests :
    LET h == handler[r]
    IN  ( /\ Done(r)
          /\ env.COHERE_API_KEY # ""
          /\ h.cohere_returned # NoneDict /\ ~h.cohere_returned.success
          /\ h.hf_returned # NoneDict /\ h.hf_returned.success )
        => /\ h.response.status = 200
           /\ h.response.body.success
           /\ h.response.body.result = h.hf_returned.result
           /\ h.response.body.message = h.hf_returned.message

\* C1 witness: a request has been answered from Hugging Face after Cohere
\* failed on the wire.
C1_Witness ==
  \E r \in Requests :
    LET h == handler[r]
    IN  /\ Done(r)
        /\ h.cohere_response # NoneDict /\ IsException(h.cohere_response)
        /\ ~h.cohere_returned.success
        /\ h.hf_returned # NoneDict /\ h.hf_returned.success
        /\ h.response.status = 200
        /\ h.response.body.message = "Text summarized successfully"

\* The text is empty, whitespace-only, or empty after clean_text.
NoUsableText(text) == text = <<>> \/ Strip(text) = <<>> \/ clean_text(text) = <<>>

\* C2 as stated: a request without usable text ends in a validation failure
\* (400) and never causes a provider call.  Refuted by a text that is only
\* empty after clean_text, sent with a token that does not authenticate: the
\* handler authenticates before it cleans, and answers 401.
C2_EmptyTextValidationFailure ==
  \A r \in Requests :
    (Received(r) /\ NoUsableText(handler[r].request.text))
    => /\ CallsOf(r) = {}
       /\ Done(r) => handler[r].response.status = 400

\* C2 amended: a request without usable text never causes a provider call
\* and ends in a failure: the validation failure 400 when the text is empty
\* or whitespace-only and whenever the caller authenticates; the
\* authentication failure 401 when the text is not blank (empty only after
\* clean_text), the prompt check passes and the caller does not authenticate.
C2_EmptyTextFailsWithoutCall ==
  \A r \in Requests :
    LET h == handler[r]
    IN  (Received(r) /\ NoUsableText(h.request.text))
        => /\ CallsOf(r) = {}
           /\ h.pc \notin {"primary", "primary_wait", "fallback", "fallback_wait",
                           "finalize", "store"}
           /\ Done(r) =>
                \/ /\ h.response.status = 400
                   /\ h.response.detail \in
                        {"Text is required for analysis", MsgPromptRequired,
                         "No meaningful text found after cleaning"}
                \/ /\ h.response.status = 401
                   /\ Strip(h.request.text) # <<>>
                   /\ h.current_user = NoneDict

\* C2 witness: an authenticated request whose text is not blank but empty
\* after clean_text has been rejected by the check that follows the cleaning.
C2_Witness ==
  \E r \in Requests :
    /\ Done(r)
    /\ handler[r].request.text = TextNoise
    /\ handler[r].current_user # NoneDict
    /\ handler[r].response = HttpError(400, "No meaningful text found after cleaning")
    /\ CallsOf(r) = {}

\* C3: a question request whose text is not blank and whose prompt is None
\* or empty ends in the validation failure 400 whose detail names the
\* missing prompt, and never causes a provider call.
C3_QuestionNeedsPrompt ==
  \A r \in Requests :
    LET h == handler[r]
    IN  ( /\ Received(r)
          /\ h.request.analysis_type = "question"
          /\ Strip(h.request.text) # <<>>
          /\ h.request.prompt \in {NoneStr, <<>>} )
        => /\ CallsOf(r) = {}
           /\ Done(r) => h.response = HttpError(400, MsgPromptRequired)

\* C3 witness: "valid context text" with kind question and an empty prompt
\* has been rejected.
C3_Witness ==
  \E r \in Requests :
    /\ Done(r)
    /\ handler[r].request.analysis_type = "question"
    /\ handler[r].request.text = TextValid
    /\ handler[r].request.prompt = <<>>
    /\ handler[r].response.status = 400

\* C4: in every successful response of analyze the confidence, where there
\* is one (the response field and the key of the result), is at most 100.0,
\* whichever adapter produced the result and whatever score it was given.
C4_ConfidenceAtMost100 ==
  \A r \in Requests :
    LET h == handler[r]
    IN  (Done(r) /\ h.response.status = 200)
        => /\ "confidence" \in DOMAIN h.response.body
                => h.response.body.confidence <= 1000
           /\ "confidence" \in DOMAIN h.response.body.result
                => h.response.body.result.confidence <= 1000

\* C4 witness: Hugging Face reported a question-answering score above 1 and
\* the response carries the confidence 100.0.
C4_Witness ==
  \E r \in Requests :
    LET h == handler[r]
    IN  /\ Done(r)
        /\ h.response.status = 200
        /\ h.hf_response # NoneDict /\ ~IsException(h.hf_response)
        /\ "dict" \in DOMAIN h.hf_response.json
        /\ "score" \in DOMAIN h.hf_response.json.dict
        /\ h.hf_response.json.dict.score > 10000
        /\ h.response.body.confidence = 1000

\* C5 as stated: with neither COHERE_API_KEY nor HUGGING_FACE_API_TOKEN set,
\* a request that passes validation and authentication is answered with a
\* failure.  Refuted: AIAnalysisService falls back to the credential
\* "demo_token" and is called all the same (see C10); when that call is served,
\* analyze answers 200.
C5_NoProviderMeansFailure ==
  \A r \in Requests :
    (Done(r) /\ env.COHERE_API_KEY = "" /\ env.HUGGING_FACE_API_TOKEN = "")
    => handler[r].response.status # 200

\* The sentiment and the emoji the fixed tables assign to a raw label.
TableSentiment(label) ==
  IF label = "LABEL_2" THEN "Positive"
  ELSE IF label = "LABEL_0" THEN "Negative" ELSE "Neutral"

TableEmoji(sentiment) ==
  IF sentiment = "Positive" THEN "U+1F60A"
  ELSE IF sentiment = "Negative" THEN "U+1F61E" ELSE "U+1F610"

\* C8: whenever AIAnalysisService answers a sentiment request from a list of
\* label scores, the sentiment of the outcome is the one the fixed table
\* assigns to a label of highest score (LABEL_2 Positive, LABEL_1 Neutral,
\* LABEL_0 Negative, anything else Neutral), and the emoji is the one of that
\* sentiment.
C8_SentimentLabelMapping ==
  \A r \in Requests :
    LET h == handler[r]
    IN  ( /\ h.request # NoneDict
          /\ h.request.analysis_type = "sentiment"
          /\ h.hf_returned # NoneDict /\ h.hf_returned.success )
        => LET items == h.hf_response.json.list
               out == h.hf_returned.result
           IN  /\ \E i \in DOMAIN items :
                    /\ \A j \in DOMAIN items : items[j].score <= items[i].score
                    /\ out.sentiment = TableSentiment(items[i].label)
               /\ out.emoji = TableEmoji(out.sentiment)

\* C8 witness: LABEL_2 scored highest, ahead of another label, and the
\* outcome is Positive with the smiling face.
C8_Witness ==
  \E r \in Requests :
    LET h == handler[r]
    IN  /\ h.request # NoneDict
        /\ h.request.analysis_type = "sentiment"
        /\ h.hf_returned # NoneDict /\ h.hf_returned.success
        /\ h.hf_response.json.list =
             <<[label |-> "LABEL_0", score |-> 3015], [label |-> "LABEL_2", score |-> 9876]>>
        /\ h.hf_returned.result.sentiment = "Positive"
        /\ h.hf_returned.result.emoji = EmojiSmiling

\* The raw answer counts as "no answer": empty after trimming, or "none" /
\* "null" in any letter case.
IsNoAnswer(raw) ==
  LET a == Strip(raw)
  IN  \/ a = <<>>
      \/ \E w \in {<<"n", "o", "n", "e">>, <<"n", "u", "l", "l">>} :
           Len(a) = Len(w) /\ \A i \in DOMAIN w : LowerChar(a[i]) = w[i]

ExpectedAnswer(raw) ==
  IF IsNoAnswer(raw) THEN NoAnswerSentence ELSE AnswerPrefix \o Strip(raw)

\* C9: for both adapters, once the question-answering provider has returned
\* an answer, the outcome is successful and its answer is the fixed "cannot
\* find a specific answer" sentence when the raw answer is empty after
\* trimming or is "none" / "null" in any letter case, and the prefix
\* "[Based on extracted text] " followed by the trimmed answer otherwise.
C9_AnswerNormalised ==
  \A r \in Requests :
    LET h == handler[r]
    IN  (h.request # NoneDict /\ h.request.analysis_type = "question")
        => /\ ( /\ h.hf_response # NoneDict /\ ~IsException(h.hf_response)
                /\ "dict" \in DOMAIN h.hf_response.json
                /\ "answer" \in DOMAIN h.hf_response.json.dict )
              => /\ h.hf_returned.success
                 /\ h.hf_returned.result.answer =
                      ExpectedAnswer(h.hf_response.json.dict.answer)
           /\ ( /\ h.cohere_response # NoneDict /\ ~IsException(h.cohere_response)
                /\ "generations" \in DOMAIN h.cohere_response.json
                /\ Len(h.cohere_response.json.generations) > 0 )
              => /\ h.cohere_returned.success
                 /\ h.cohere_returned.result.answer =
                      ExpectedAnswer(h.cohere_response.json.generations[1].text)

\* C9 witness: Hugging Face answered "None" and the outcome carries the
\* fixed sentence.
C9_Witness ==
  \E r \in Requests :
    LET h == handler[r]
    IN  /\ h.request # NoneDict
        /\ h.request.analysis_type = "question"
        /\ h.hf_response # NoneDict /\ ~IsException(h.hf_response)
        /\ "dict" \in DOMAIN h.hf_response.json
        /\ "answer" \in DOMAIN h.hf_response.json.dict
        /\ h.hf_response.json.dict.answer = <<"N", "o", "n", "e">>
        /\ h.hf_returned.result.answer = NoAnswerSentence

\* C10 as stated: no outbound call goes to a provider whose credential was
\* not supplied.  Refuted: AIAnalysisService.__init__ replaces the missing
\* HUGGING_FACE_API_TOKEN by "demo_token" and the adapter posts with it.
C10_NoCallWithoutCredential ==
  \A i \in DOMAIN outbound :
    /\ outbound[i].call.provider = "cohere" => env.COHERE_API_KEY # ""
    /\ outbound[i].call.provider = "huggingface" => env.HUGGING_FACE_API_TOKEN # ""

\* C11: the outcome analyze returns is that of the last provider attempted.
\* Whenever Hugging Face, the last in the order, was attempted and failed
\* (after a failure of Cohere, or with Cohere unconfigured), the caller
\* receives the failure 422 whose detail is the Hugging Face failure message.
C11_LastAttemptReturned ==
  \A r \in Requests :
    LET h == handler[r]
    IN  ( /\ Done(r)
          /\ h.hf_returned # NoneDict /\ ~h.hf_returned.success
          /\ \/ env.COHERE_API_KEY = ""
             \/ h.cohere_returned # NoneDict /\ ~h.cohere_returned.success )
        => h.response = HttpError(422, h.hf_returned.message)

\* C11 witness: Cohere failed on the wire, Hugging Face then returned no
\* results, and the caller received the Hugging Face message, not Cohere's.
C11_Witness ==
  \E r \in Requests :
    LET h == handler[r]
    IN  /\ Done(r)
        /\ h.cohere_returned # NoneDict
        /\ h.cohere_returned.message = "Cohere network error: Read timed out"
        /\ h.hf_returned # NoneDict
        /\ h.hf_returned.message = "Failed to analyze sentiment - no results returned"
        /\ h.response = HttpError(422, "Failed to analyze sentiment - no results returned")

\* An ordinary remote failure of a Hugging Face call: the call raised (network
\* error, timeout, non-2xx status, undecodable body), the body has not the
\* shape of its kind, or the result in it is empty.
HFRemoteFailure(analysis_type, resp) ==
  \/ IsException(resp)
  \/ /\ analysis_type = "summarize"
     /\ \/ "list" \notin DOMAIN resp.json
        \/ Len(resp.json.list) = 0
        \/ "summary_text" \notin DOMAIN resp.json.list[1]
        \/ Strip(resp.json.list[1].summary_text) = <<>>
  \/ /\ analysis_type = "sentiment"
     /\ ("list" \notin DOMAIN resp.json \/ Len(resp.json.list) = 0)
  \/ /\ analysis_type = "question"
     /\ ("dict" \notin DOMAIN resp.json \/ "answer" \notin DOMAIN resp.json.dict)

\* The same for a Cohere call.  (An empty answer to a question is no failure:
\* it is answered with the fixed sentence, see C9.)
CohereRemoteFailure(analysis_type, resp) ==
  \/ IsException(resp)
  \/ /\ analysis_type = "summarize"
     /\ ("summary" \notin DOMAIN resp.json \/ Strip(resp.json.summary) = <<>>)
  \/ /\ analysis_type \in {"sentiment", "question"}
     /\ \/ "generations" \notin DOMAIN resp.json
        \/ Len(resp.json.generations) = 0
        \/ /\ analysis_type = "sentiment"
           /\ Strip(resp.json.generations[1].text) = <<>>

IsFailureOutcome(outcome) ==
  /\ ~outcome.success
  /\ outcome.result = NoneDict
  /\ outcome.message # ""

\* C12 as stated: for every kind and both adapters, a call that ends in an
\* ordinary remote failure yields an outcome with success=false, no result
\* and a non-empty message.  Refuted: _sentiment_with_cohere answers an empty
\* generation with a successful Neutral outcome, and AIAnalysisService.
\* _answer_question answers a JSON object without an answer with a successful
\* outcome.
C12_RemoteFailureIsFailureOutcome ==
  \A r \in Requests :
    LET h == handler[r]
    IN  /\ ( /\ h.hf_response # NoneDict
             /\ HFRemoteFailure(h.request.analysis_type, h.hf_response) )
           => IsFailureOutcome(h.hf_returned)
        /\ ( /\ h.cohere_response # NoneDict
             /\ CohereRemoteFailure(h.request.analysis_type, h.cohere_response) )
           => IsFailureOutcome(h.cohere_returned)

\* An exception that is none of requests' own: what `except Exception`
\* is there for.
IsUnexpected(resp) == IsException(resp) /\ ~IsNetworkError(resp)

\* The texts the `except Exception` clauses of the two services put before
\* str(e).
GenericFailurePrefixes ==
  {"Analysis failed: ", "Summarization failed: ", "Sentiment analysis failed: ",
   "Question answering failed: ", "Cohere summarization failed: ",
   "Cohere sentiment analysis failed: ", "Cohere question answering failed: "}

CarriesMessageOf(outcome, resp) ==
  /\ IsFailureOutcome(outcome)
  /\ \E prefix \in GenericFailurePrefixes : outcome.message = prefix \o resp.err

InternalError == HttpError(500, "Internal server error during text analysis")

\* C13: an unexpected exception raised while an adapter is invoked comes back
\* from analyze_text as a failure outcome whose message carries the
\* exception's message, and never reaches the caller as an exception: the
\* handler is not answered by its own `except Exception` (HTTP 500); when the
\* adapter was the last one tried, the response is 422 with that message.
C13_UnexpectedExceptionCaught ==
  \A r \in Requests :
    LET h == handler[r]
    IN  /\ ( h.cohere_response # NoneDict /\ IsUnexpected(h.cohere_response) )
           => /\ CarriesMessageOf(h.cohere_returned, h.cohere_response)
              /\ h.pc \in {"fallback", "fallback_wait", "finalize", "store", "done"}
              /\ Done(r) => h.response # InternalError
        /\ ( h.hf_response # NoneDict /\ IsUnexpected(h.hf_response) )
           => /\ CarriesMessageOf(h.hf_returned, h.hf_response)
              /\ h.pc \in {"finalize", "done"}
              /\ Done(r) => h.response = HttpError(422, h.hf_returned.message)

\* C13 happens: the Hugging Face call raised an unexpected exception and the
\* request was answered 422 with the adapter's message about it.
C13_Witness ==
  \E r \in Requests :
    LET h == handler[r]
    IN  /\ Done(r)
        /\ h.hf_response = Raised("Exception", "unexpected response body")
        /\ h.hf_returned.message = "Summarization failed: unexpected response body"
        /\ h.response = HttpError(422, "Summarization failed: unexpected response body")

\* The outcome of the adapter tried last for request r.
LastOutcome(r) ==
  IF handler[r].hf_returned # NoneDict
  THEN handler[r].hf_returned
  ELSE handler[r].cohere_returned

\* C14: when the analysis of a request with a document_id succeeded and
\* add_analysis_to_document failed (the store is disabled, or the update
\* raised inside it and it returned False), the request is answered 200 with
\* the result and message of that analysis, and no document is changed.
C14_StoreFailureNotPropagated ==
  \A r \in Requests :
    LET h == handler[r]
    IN  (Done(r) /\ h.stored = "failed")
        => /\ Truthy(h.request.document_id)
           /\ LastOutcome(r).success
           /\ h.response.status = 200
           /\ h.response.body.success
           /\ h.response.body.result = LastOutcome(r).result
           /\ h.response.body.message = LastOutcome(r).message
           /\ \A d \in DOMAIN documents : documents[d] = <<>>

\* C14 happens: the store is enabled, the update of the document failed, and
\* the sentiment found by Cohere is returned.
C14_Witness ==
  \E r \in Requests :
    LET h == handler[r]
    IN  /\ Done(r)
        /\ firebase_db
        /\ h.request.document_id = DocumentId
        /\ h.stored = "failed"
        /\ h.cohere_returned # NoneDict /\ h.cohere_returned.success
        /\ h.response.status = 200
        /\ h.response.body.result.sentiment = "Positive"

\* ------------------------------------------------------------------------
\* SpecConcurrent: two /analyze requests on the one event loop of the
\* server, with documents deleted and users registered between their steps
\* ------------------------------------------------------------------------

\* Both providers configured, the store enabled; sentiment requests with
\* and without a document, under a token of the registered email or of an
\* email that has no user until it is registered; each provider times out
\* or answers.
ConcurrentRequests ==
  [text : {TextFive}, analysis_type : {"sentiment"}, prompt : {NoneStr},
   document_id : DocumentIds,
   credentials : {[verifies |-> TRUE, sub |-> RegisteredEmail],
                  [verifies |-> TRUE, sub |-> UnknownEmail]}]

ConcurrentCohereResponses ==
  {Raised("RequestException", "Read timed out"),
   Json([id |-> "c1", generations |->
           <<[text |-> <<"P", "o", "s", "i", "t", "i", "v", "e">>]>>])}

ConcurrentHFResponses ==
  {Raised("RequestException", "Read timed out"),
   Json([list |-> <<[label |-> "LABEL_2", score |-> 9876]>>])}

InitConcurrent ==
  /\ Init
  /\ env = [COHERE_API_KEY |-> "co-key", HUGGING_FACE_API_TOKEN |-> "hf-token"]
  /\ firebase_db

\* The arrival of one of the requests above.
ReceiveConcurrent(r) ==
  Receive(r) /\ handler'[r].request \in ConcurrentRequests

\* requests.post to Cohere times out or answers.
PrimaryResponseConcurrent(r) ==
  PrimaryResponse(r) /\ handler'[r].cohere_response \in ConcurrentCohereResponses

\* requests.post to Hugging Face times out or answers.
FallbackResponseConcurrent(r) ==
  FallbackResponse(r) /\ handler'[r].hf_response \in ConcurrentHFResponses

NextConcurrent ==
  \/ \E r \in Requests : ReceiveConcurrent(r)
  \/ \E r \in Requests : Validate(r)
  \/ \E r \in Requests : Authenticate(r)
  \/ \E r \in Requests : GetServices(r)
  \/ \E r \in Requests : Clean(r)
  \/ \E r \in Requests : TryPrimary(r)
  \/ \E r \in Requests : PrimaryResponseConcurrent(r)
  \/ \E r \in Requests : TryFallback(r)
  \/ \E r \in Requests : FallbackResponseConcurrent(r)
  \/ \E r \in Requests : Finalize(r)
  \/ \E r \in Requests : Store(r)
  \/ DeleteDocument
  \/ Register

SpecConcurrent == InitConcurrent /\ [][NextConcurrent]_vars

\* Any step of the handler of request r after its arrival.
HandlerStep(r) ==
  \/ Validate(r)
  \/ Authenticate(r)
  \/ GetServices(r)
  \/ Clean(r)
  \/ TryPrimary(r)
  \/ PrimaryResponse(r)
  \/ TryFallback(r)
  \/ FallbackResponse(r)
  \/ Finalize(r)
  \/ Store(r)

WaitsForProvider(r) == handler[r].pc \in {"primary_wait", "fallback_wait"}

InFlight(r) == handler[r].pc \notin {"idle", "done"}

\* C15 as stated: while one request waits for a provider's response, every
\* other request in flight can take a step.  Refuted: requests.post is a
\* blocking call inside `async def`, the coroutine never yields, and the
\* event loop runs no other handler until the call returns or times out.
C15_WaitingDoesNotBlock ==
  \A a, b \in Requests :
    (a # b /\ WaitsForProvider(a) /\ InFlight(b)) => ENABLED HandlerStep(b)

\* The handler of r has cleaned a text of fewer than n characters for an
\* analysis of the given kind.
ShortCleanedText(r, analysis_type, n) ==
  /\ handler[r].request # NoneDict
  /\ handler[r].request.analysis_type = analysis_type
  /\ handler[r].cleaned_text # NoneStr
  /\ Len(handler[r].cleaned_text) < n

\* Whatever adapter has answered request r has answered with a failure.
EveryOutcomeFailed(r) ==
  /\ handler[r].cohere_returned # NoneDict => IsFailureOutcome(handler[r].cohere_returned)
  /\ handler[r].hf_returned # NoneDict => IsFailureOutcome(handler[r].hf_returned)

\* C16 as stated: for a summarize request whose cleaned text has fewer than 20
\* characters no outbound call is made, and every adapter that is asked
\* answers with a failure.  Refuted: AlternativeAIAnalysisService.
\* _summarize_text has no length check and posts the text to Cohere.
C16_ShortSummarizeRejected ==
  \A r \in Requests :
    ShortCleanedText(r, "summarize", HFSummarizeMinLen)
    => CallsOf(r) = {} /\ EveryOutcomeFailed(r)

\* C17 as stated: for a sentiment request whose cleaned text has fewer than 5
\* characters no outbound call is made, and every adapter that is asked
\* answers with a failure.  Refuted: AlternativeAIAnalysisService.
\* _analyze_sentiment has no length check and posts the text to Cohere.
C17_ShortSentimentRejected ==
  \A r \in Requests :
    ShortCleanedText(r, "sentiment", HFSentimentMinLen)
    => CallsOf(r) = {} /\ EveryOutcomeFailed(r)

\* The number of words of more than two characters in a text: the places
\* where a run of three or more non-blank characters begins.
LongWordCount(text) ==
  Cardinality({i \in DOMAIN text :
                 /\ i + 2 <= Len(text)
                 /\ i = 1 \/ text[i - 1] \in Whitespace
                 /\ \A j \in i..(i + 2) : text[j] \notin Whitespace})

\* The context of a question is too poor to be sent: its cleaned text has
\* fewer than 10 characters or fewer than 5 words longer than 2 characters.
PoorContext(text) ==
  \/ Len(clean_text(text)) < HFQuestionMinLen
  \/ LongWordCount(clean_text(text)) < HFQuestionMinWords

\* C18: an adapter asked a question about a context that is too poor returns
\* a failure outcome and makes no outbound call, whether or not its
\* credential is set; with a prompt the failure is the one of the quality
\* gate, also for the Cohere adapter without an API key (the gate comes
\* before the configuration check).
C18_QuestionGate ==
  ( /\ direct # NoneDict
    /\ direct.pc # "call"
    /\ direct.analysis_type = "question"
    /\ PoorContext(direct.text) )
  => /\ direct.pc = "returned"
     /\ outbound = <<>>
     /\ IsFailureOutcome(direct.outcome)
     /\ Truthy(direct.prompt)
        => direct.outcome.message =
             IF Len(clean_text(direct.text)) < HFQuestionMinLen
             THEN MsgContextTooShort
             ELSE MsgContextNotMeaningful

\* C18 happens: the Cohere adapter without an API key is asked about 'the cat
\* sat down at it' (four words longer than two characters) and answers with
\* the gate's failure, no call made.
C18_Witness ==
  /\ direct # NoneDict
  /\ direct.pc = "returned"
  /\ direct.adapter = "cohere"
  /\ env.COHERE_API_KEY = ""
  /\ direct.analysis_type = "question"
  /\ direct.prompt = Question
  /\ direct.text = TextFewWords
  /\ direct.outcome = Failure(MsgContextNotMeaningful)
  /\ outbound = <<>>

\* The longest text a call of the given adapter and kind may carry: 512
\* characters for sentiment, 2000 (and the "..." that marks the cut) or
\* 100000 for summarize, 1000 (and "...") or 100000 for a question.
TextBound(adapter, analysis_type) ==
  CASE analysis_type = "sentiment" -> HFSentimentMaxLen
    [] analysis_type = "summarize" ->
         IF adapter = "huggingface" THEN HFSummarizeMaxLen + Len(Ellipsis)
         ELSE CohereSummarizeMaxLen
    [] OTHER ->
         IF adapter = "huggingface" THEN HFQuestionMaxLen + Len(Ellipsis)
         ELSE CohereSummarizeMaxLen

\* C19 as stated: the text of every outbound call is no longer than the bound
\* of its kind.  Refuted: _sentiment_with_cohere puts the whole text into the
\* prompt it posts, however long (and _question_with_cohere the whole
\* context).
C19_CallTextTruncated ==
  direct # NoneDict
  => \A i \in DOMAIN outbound :
       Len(outbound[i].call.text) <= TextBound(direct.adapter, direct.analysis_type)

\* The summary a provider's response carries: the text of the first
\* summary of a Hugging Face list, the summary field of a Cohere object, or
\* nothing.
SummaryIn(adapter, resp) ==
  IF adapter = "huggingface"
  THEN IF /\ "list" \in DOMAIN resp.json
          /\ Len(resp.json.list) > 0
          /\ "summary_text" \in DOMAIN resp.json.list[1]
       THEN resp.json.list[1].summary_text
       ELSE <<>>
  ELSE IF "summary" \in DOMAIN resp.json THEN resp.json.summary ELSE <<>>

IsBlank(text) == \A i \in DOMAIN text : text[i] \in Whitespace

\* C20: a summarize call of either adapter whose response has no summary, an
\* empty one or one of white space only returns success=false with no
\* result; a successful summarize outcome carries a summary that is not
\* blank.
C20_BlankSummaryFails ==
  ( /\ direct # NoneDict
    /\ direct.pc = "returned"
    /\ direct.analysis_type = "summarize"
    /\ direct.response # NoneDict
    /\ ~IsException(direct.response) )
  => /\ IsBlank(SummaryIn(direct.adapter, direct.response))
        => IsFailureOutcome(direct.outcome)
     /\ direct.outcome.success
        => ~IsBlank(direct.outcome.result.summary)

\* C20 happens: Cohere answers a summarize call with the summary ' ' and the
\* adapter returns its failure for an empty summary.
C20_Witness ==
  /\ direct # NoneDict
  /\ direct.pc = "returned"
  /\ direct.adapter = "cohere"
  /\ direct.analysis_type = "summarize"
  /\ direct.text = TextValid
  /\ direct.response = Json([id |-> "c1", summary |-> <<" ">>])
  /\ direct.outcome = Failure("Cohere returned empty summary")

\* C21 as stated: whenever a call is made to a provider on behalf of a
\* request, the request has a prompt exactly if its kind is question, and the
\* call carries a prompt exactly if the kind is question.  Refuted: a
\* summarize (or sentiment) request with a prompt is accepted and forwarded,
\* and AlternativeAIAnalysisService._summarize_text sends that prompt to
\* Cohere as additional_command.
C21_PromptIffQuestion ==
  \A r \in Requests :
    \A i \in CallsOf(r) :
      LET request == handler[r].request
      IN  /\ Truthy(request.prompt) <=> request.analysis_type = "question"
          /\ outbound[i].call.question # NoneStr
             <=> request.analysis_type = "question"

\* The payload of an outcome is present exactly if the outcome is a success.
PayloadIffSuccess(outcome) == outcome.success <=> outcome.result # NoneDict

\* C22: every outcome an adapter has returned to the handler, and the outcome
\* the handler works with, has a result exactly if success is true; the
\* response built from it is a 200 with success=true and that result for a
\* success, and an HTTP error without any result for a failure.
C22_PayloadIffSuccess ==
  \A r \in Requests :
    LET h == handler[r]
    IN  /\ h.cohere_returned # NoneDict => PayloadIffSuccess(h.cohere_returned)
        /\ h.hf_returned # NoneDict => PayloadIffSuccess(h.hf_returned)
        /\ h.analysis_result # NoneDict => PayloadIffSuccess(h.analysis_result)
        /\ (Done(r) /\ h.analysis_result # NoneDict)
           => IF h.analysis_result.success
              THEN /\ h.response.status = 200
                   /\ h.response.body.success
                   /\ h.response.body.result = h.analysis_result.result
                   /\ h.response.body.result # NoneDict
              ELSE /\ h.response.status = 422
                   /\ DOMAIN h.response = {"status", "detail"}

\* C22 happens: in one request Cohere returned a failure without result and
\* Hugging Face a success with an answer, which is the result of the
\* response.
C22_Witness ==
  \E r \in Requests :
    LET h == handler[r]
    IN  /\ Done(r)
        /\ h.request.analysis_type = "question"
        /\ h.cohere_returned # NoneDict
        /\ ~h.cohere_returned.success /\ h.cohere_returned.result = NoneDict
        /\ h.hf_returned # NoneDict
        /\ h.hf_returned.success /\ "answer" \in DOMAIN h.hf_returned.result
        /\ h.response.status = 200
        /\ h.response.body.result = h.hf_returned.result

\* C23 as stated, for the OCR caller of clean_text: a successful extraction
\* result, and a 200 response of /extract-text, never carries an empty text.
\* Refuted: extract_text_from_image tests the text for emptiness before it
\* calls clean_text and returns whatever clean_text leaves, the empty string
\* included, with success True.
C23_EmptyCleanedTextFails ==
  ocr # NoneDict
  => /\ (ocr.result # NoneDict /\ ocr.result.success) => ocr.result.text # <<>>
     /\ (ocr.http # NoneDict /\ ocr.http.status = 200) => ocr.http.body.text # <<>>

\* The outbound calls made to one provider on behalf of request r.
CallsTo(r, provider) == {i \in CallsOf(r) : outbound[i].call.provider = provider}

\* C24: within one request each provider is called at most once, Hugging
\* Face is not attempted after Cohere succeeded, and when Cohere is configured
\* Hugging Face is attempted only after the Cohere attempt has failed, its
\* call coming later than the Cohere call.
C24_ProviderOrder ==
  \A r \in Requests :
    LET h == handler[r]
        hf_attempted == \/ CallsTo(r, "huggingface") # {}
                        \/ h.hf_returned # NoneDict
                        \/ h.pc = "fallback_wait"
    IN  /\ Cardinality(CallsTo(r, "cohere")) <= 1
        /\ Cardinality(CallsTo(r, "huggingface")) <= 1
        /\ (h.cohere_returned # NoneDict /\ h.cohere_returned.success)
             => ~hf_attempted
        /\ (hf_attempted /\ env.COHERE_API_KEY # "")
             => /\ h.cohere_returned # NoneDict
                /\ ~h.cohere_returned.success
                /\ \A i \in CallsTo(r, "cohere"), j \in CallsTo(r, "huggingface") : i < j
        /\ h.pc \in {"primary", "primary_wait"} => ~hf_attempted

\* C24 witness: a request answered after exactly one Cohere call, which
\* raised, and exactly one Hugging Face call, made after it.
C24_Witness ==
  \E r \in Requests :
    LET h == handler[r]
    IN  /\ Done(r)
        /\ h.cohere_response # NoneDict /\ IsException(h.cohere_response)
        /\ h.hf_response # NoneDict
        /\ Cardinality(CallsTo(r, "cohere")) = 1
        /\ Cardinality(CallsTo(r, "huggingface")) = 1
        /\ Len(outbound) = 2
        /\ outbound[1].call.provider = "cohere"
        /\ outbound[2].call.provider = "huggingface"

\* `word in analysis.lower()`
Mentions(analysis, word) == Contains(Lower(analysis), word)

WordPositive == <<"p", "o", "s", "i", "t", "i", "v", "e">>
WordNegative == <<"n", "e", "g", "a", "t", "i", "v", "e">>

\* C25: when Cohere generated an analysis for a sentiment request, the
\* outcome is Positive with confidence 85.0 if the stripped analysis contains
\* "positive" in any letter case, otherwise Negative with 85.0 if it contains
\* "negative", otherwise Neutral with 50.0; a successful Cohere sentiment
\* outcome never carries another sentiment or confidence.
C25_CohereSentimentInferred ==
  \A r \in Requests :
    LET h == handler[r]
    IN  /\ ( /\ h.request # NoneDict /\ h.request.analysis_type = "sentiment"
              /\ h.cohere_response # NoneDict
              /\ ~IsException(h.cohere_response)
              /\ "generations" \in DOMAIN h.cohere_response.json
              /\ Len(h.cohere_response.json.generations) > 0 )
            => LET analysis == Strip(h.cohere_response.json.generations[1].text)
                   res == h.cohere_returned.result
               IN  /\ h.cohere_returned.success
                   /\ res.analysis = analysis
                   /\ IF Mentions(analysis, WordPositive)
                      THEN res.sentiment = "Positive" /\ res.confidence = 850
                      ELSE IF Mentions(analysis, WordNegative)
                      THEN res.sentiment = "Negative" /\ res.confidence = 850
                      ELSE res.sentiment = "Neutral" /\ res.confidence = 500
        /\ ( /\ h.request # NoneDict /\ h.request.analysis_type = "sentiment"
              /\ h.cohere_returned # NoneDict /\ h.cohere_returned.success )
            => <<h.cohere_returned.result.sentiment,
                 h.cohere_returned.result.confidence>>
                 \in {<<"Positive", 850>>, <<"Negative", 850>>, <<"Neutral", 500>>}

\* C25 witness: the analysis 'not positive, rather negative' holds both
\* words and the outcome is Positive at 85.0.
C25_Witness ==
  \E r \in Requests :
    LET h == handler[r]
    IN  /\ h.request # NoneDict /\ h.request.analysis_type = "sentiment"
        /\ h.cohere_returned # NoneDict /\ h.cohere_returned.success
        /\ Mentions(h.cohere_returned.result.analysis, WordPositive)
        /\ Mentions(h.cohere_returned.result.analysis, WordNegative)
        /\ h.cohere_returned.result.sentiment = "Positive"
        /\ h.cohere_returned.result.confidence = 850

\* The bearer token of request r does not verify, or no user can be resolved
\* for it (the store is disabled or holds no user with the token's email).
Unauthenticated(r) ==
  LET token == handler[r].request.credentials
  IN  \/ ~token.verifies
      \/ ~firebase_db
      \/ ~\E i \in DOMAIN users : users[i].email = token.sub

\* C26: a provider call is made for a request only after its caller has been
\* authenticated; a request whose token is invalid or whose user cannot be
\* resolved never gets a provider call and, once it has passed the input
\* checks, is answered 401.
C26_AuthBeforeProviderCall ==
  \A r \in Requests :
    LET h == handler[r]
    IN  /\ (CallsOf(r) # {} \/ h.pc \in {"primary_wait", "fallback_wait"}
             \/ h.cohere_returned # NoneDict \/ h.hf_returned # NoneDict)
            => /\ h.current_user # NoneDict
               /\ ~Unauthenticated(r)
               /\ h.current_user.email = h.request.credentials.sub
        /\ (Received(r) /\ Unauthenticated(r))
            => /\ CallsOf(r) = {}
               /\ h.cohere_returned = NoneDict /\ h.hf_returned = NoneDict
               /\ h.pc \in {"validate", "auth", "done"}
               /\ Done(r) => h.response.status \in {400, 401}
               /\ ( /\ Done(r)
                     /\ ~text_missing(h.request.text)
                     /\ ~prompt_missing(h.request.analysis_type, h.request.prompt) )
                   => h.response = HttpError(401, "Invalid authentication credentials")

\* C26 witness: with both providers configured, a well-formed request whose
\* token does not verify has been answered 401 and no call was made.
C26_Witness ==
  \E r \in Requests :
    LET h == handler[r]
    IN  /\ Done(r)
        /\ env.COHERE_API_KEY # "" /\ env.HUGGING_FACE_API_TOKEN # ""
        /\ firebase_db
        /\ ~h.request.credentials.verifies
        /\ h.request.text = TextValid
        /\ h.request.analysis_type = "summarize"
        /\ h.response = HttpError(401, "Invalid authentication credentials")
        /\ outbound = <<>>

\* The confidence of a result, where it has one, is at most 100.0.
Clamped(result) == "confidence" \in DOMAIN result => result.confidence <= 1000

\* C27: the store is reached only by a request with a document_id whose
\* provider outcome is a success with the clamp applied; a request answered
\* with an error or sent without document_id has stored nothing; a document
\* holds no more records than requests stored under it (ArrayUnion keeps one
\* of two equal records) and the record of each, which carries the kind, the
\* prompt and the result of the 200 response, for as long as the document is
\* not deleted.
C27_StoreOnlyClampedSuccess ==
  /\ \A r \in Requests :
       LET h == handler[r]
       IN  /\ (h.pc = "store" \/ h.stored # "none")
               => /\ Truthy(h.request.document_id)
                  /\ h.analysis_result # NoneDict /\ h.analysis_result.success
                  /\ Clamped(h.analysis_result.result)
           /\ h.stored # "none"
               => /\ Done(r)
                  /\ h.response.status = 200
                  /\ h.response.body.result = h.analysis_result.result
           /\ (h.stored = "yes" /\ h.request.document_id \in DOMAIN documents)
               => \E i \in DOMAIN documents[h.request.document_id],
                     timestamp \in Timestamps :
                    documents[h.request.document_id][i] =
                      analysis_record(h.request.analysis_type,
                                      h.response.body.result, timestamp,
                                      h.request.prompt)
           /\ (Done(r) /\ h.response.status # 200) => h.stored = "none"
           /\ (Received(r) /\ ~Truthy(h.request.document_id)) => h.stored = "none"
  /\ \A d \in DOMAIN documents :
       LET stored == {r \in Requests : /\ handler[r].stored = "yes"
                                       /\ handler[r].request.document_id = d}
       IN  /\ Len(documents[d]) <= Cardinality(stored)
           /\ stored # {} => Len(documents[d]) >= 1
           /\ \A i \in DOMAIN documents[d] : Clamped(documents[d][i].result)

\* C27 witness: Hugging Face reported a score above 1 for a request with a
\* document_id; the record stored and the result returned both carry the
\* confidence 100.0.
C27_Witness ==
  \E r \in Requests :
    LET h == handler[r]
    IN  /\ Done(r)
        /\ h.stored = "yes"
        /\ h.hf_response # NoneDict /\ ~IsException(h.hf_response)
        /\ "dict" \in DOMAIN h.hf_response.json
        /\ "score" \in DOMAIN h.hf_response.json.dict
        /\ h.hf_response.json.dict.score > 10000
        /\ h.response.body.result.confidence = 1000
        /\ DocumentId \in DOMAIN documents
        /\ Len(documents[DocumentId]) = 1
        /\ documents[DocumentId][1].result = h.response.body.result

\* ------------------------------------------------------------------------
\* SpecLive: Spec with the scheduling the code relies on.  The event loop
\* runs a handler that is ready; requests.post is given timeout=30, so it
\* returns or raises; the auth and store calls return.  Hence a handler that
\* stays ready eventually moves to its next position.  No request is obliged
\* to arrive.
\* ------------------------------------------------------------------------

\* The handler of r has been received, has not answered, and the thread of
\* the event loop is free or its own.
Ready(r) == InFlight(r) /\ OnLoop(r)

\* The handler of r moves on from its position.  Every position of
\* analyze_text has a step whatever the data (the first disjunct says no more
\* than that: it makes Advance(r) possible exactly when Ready(r) holds,
\* without evaluating the step); the steps of Next that move the handler of r
\* on are the steps HandlerStep(r), see AdvanceIsHandlerStep.
Advance(r) ==
  /\ Ready(r)
  /\ \/ /\ handler' = [handler EXCEPT ![r].pc = "next"]
        /\ UNCHANGED <<clean_vars, direct, ocr, auth_vars, env, ai_service,
                       alternative_ai_service, firebase_db, users, documents,
                       outbound, running>>
     \/ handler'[r].pc # handler[r].pc

\* Under Next, the handler of r moves on exactly by a step of HandlerStep(r).
AdvanceIsHandlerStep ==
  [][\A r \in Requests :
       (Ready(r) /\ handler'[r].pc # handler[r].pc) <=> HandlerStep(r)]_vars

SpecLive == Spec /\ \A r \in Requests : WF_vars(Advance(r))

\* The final states of a request: a 200 response or an HTTP error.
FinalResponse(r) ==
  /\ Done(r)
  /\ handler[r].response # NoneDict
  /\ handler[r].response.status \in {200, 400, 401, 422, 500}

\* C28: the request that has arrived (Spec runs one, request 1) is
\* eventually answered, with a 200 response or an HTTP error, and once
\* answered stays answered; at no point have more than two provider calls or
\* more than one store attempt been made for a request.
C28_RequestTerminates ==
  /\ Received(1) ~> FinalResponse(1)
  /\ [](\A r \in Requests :
         /\ Cardinality(CallsOf(r)) <= 2
         /\ Done(r) => FinalResponse(r)
         /\ \A d \in DOMAIN documents :
              Len(documents[d]) <=
                Cardinality({q \in Requests : handler[q].stored = "yes"}))
  /\ [][\A r \in Requests : Done(r) => handler'[r] = handler[r]]_vars

\* C28 witness: a request answered after two provider calls, the first of
\* which raised, and one store attempt.
C28_Witness ==
  \E r \in Requests :
    LET h == handler[r]
    IN  /\ FinalResponse(r)
        /\ Cardinality(CallsOf(r)) = 2
        /\ h.cohere_response # NoneDict /\ IsException(h.cohere_response)
        /\ h.hf_response # NoneDict /\ ~IsException(h.hf_response)
        /\ h.stored # "none"

\* ------------------------------------------------------------------------
\* Claims about the password reset (SpecAuth)
\* ------------------------------------------------------------------------

\* The hashed passwords of a users collection.
Passwords(accts) == [id \in DOMAIN accts |-> accts[id].hashed_password]

\* No reset-password call goes through: the stored expiry comes back aware,
\* its comparison with utcnow() raises, validate_reset_token answers False
\* and the users collection stays as it was.
NoResetSucceeds ==
  \A i \in DOMAIN auth_log :
    auth_log[i].op = "reset-password"
    => /\ ~auth_log[i].success
       /\ auth_log[i].response = HttpError(400, "Invalid or expired reset token")
       /\ auth_log[i].after = auth_log[i].before

\* An email registered through POST /register has been sent a token, and the
\* reset-password call that presents it before it expires is turned down.
RegisteredUserResetRefused ==
  \E i, j, k \in DOMAIN auth_log :
    /\ i < j /\ j < k
    /\ auth_log[i].op = "register" /\ auth_log[i].email = UnknownEmail
    /\ auth_log[i].response.status = 200 /\ auth_log[i].response.body.id = "auto-1"
    /\ auth_log[j].op = "forgot-password" /\ auth_log[j].email = UnknownEmail
    /\ auth_log[j].success
    /\ auth_log[j].after["auto-1"].reset_token # NoToken
    /\ auth_log[j].after["auto-1"].reset_token_expires > clock
    /\ auth_log[k].op = "reset-password" /\ auth_log[k].email = UnknownEmail
    /\ auth_log[k].reset_token = auth_log[j].after["auto-1"].reset_token
    /\ auth_log[k].response = HttpError(400, "Invalid or expired reset token")

\* Were the expiry read back as it was written, a reset during which
\* clear_reset_token fails would go through and leave the token stored,
\* and the same token would go through again: reset_password does not look
\* at what clear_reset_token returns.
TokenKeptWhenClearFails ==
  LET docs == <<[id |-> "uid-1", email |-> RegisteredEmail]>>
      asked == request_password_reset(TRUE, docs, InitAccounts, 0, 0,
                                      RegisteredEmail, "none")
      first == reset_password(TRUE, docs, asked.accounts, FALSE, 0,
                              RegisteredEmail, 1, "new-1", "clear")
      second == reset_password(TRUE, docs, first.accounts, FALSE, 0,
                               RegisteredEmail, 1, "new-2", "none")
  IN  /\ first.success /\ first.accounts["uid-1"].reset_token = 1
      /\ second.success
      /\ second.accounts["uid-1"].hashed_password = get_password_hash("new-2")

\* Once reset-password has succeeded with a token for an email, every later
\* reset-password with that token for that email fails and leaves the stored
\* passwords as they were.  It holds for want of a reset that succeeds
\* (NoResetSucceeds).
ResetTokenSingleUse ==
  \A i, j \in DOMAIN auth_log :
    ( /\ i < j
      /\ auth_log[i].op = "reset-password" /\ auth_log[i].success
      /\ auth_log[j].op = "reset-password"
      /\ auth_log[j].email = auth_log[i].email
      /\ auth_log[j].reset_token = auth_log[i].reset_token )
    => /\ ~auth_log[j].success
       /\ auth_log[j].response.status = 400
       /\ Passwords(auth_log[j].after) = Passwords(auth_log[j].before)

\* C30: every forgot-password call is answered 200 with the same message and
\* success=true, whether or not the email is registered and whether or not
\* the token was stored and the mail delivered; any two such responses are
\* equal.
C30_ForgotPasswordUniform ==
  \A i \in DOMAIN auth_log :
    auth_log[i].op = "forgot-password"
    => /\ auth_log[i].response.status = 200
       /\ auth_log[i].response.body.success
       /\ auth_log[i].response.body.message =
            "If an account with this email exists, a password reset link has been sent."
       /\ \A j \in DOMAIN auth_log :
            auth_log[j].op = "forgot-password"
            => auth_log[j].response = auth_log[i].response

\* C30 witness: three forgot-password calls have been answered: one for an
\* unknown email, one for the registered email that went through, and one for
\* the registered email whose token could not be stored.
C30_Witness ==
  \E i, j, k \in DOMAIN auth_log :
    /\ auth_log[i].op = "forgot-password"
    /\ auth_log[i].email = UnknownEmail /\ ~auth_log[i].success
    /\ auth_log[j].op = "forgot-password"
    /\ auth_log[j].email = RegisteredEmail /\ auth_log[j].success
    /\ auth_log[j].after["uid-1"].reset_token # NoToken
    /\ auth_log[k].op = "forgot-password"
    /\ auth_log[k].email = RegisteredEmail /\ ~auth_log[k].success
    /\ auth_log[k].after = auth_log[k].before
====
